---- MODULE Spec2Model ----
(***************************************************************************)
(* sqlc, ClickHouse engine: the converter from the ClickHouse parse tree   *)
(* (chparser nodes) to the sqlc AST (internal/engine/clickhouse/convert.go)*)
(* and the per-statement loop of parse.go that drives it.                  *)
(* Around them: the catalog a compiler starts with and the statements     *)
(* that change it, the compiler's run over schema and query files, the     *)
(* path of one query text through preprocessing, parsing, the rewrites     *)
(* and source.Mutate, and the places of the statements of one source.      *)
(*                                                                         *)
(* Strings that the code inspects or rewrites (identifiers, literals,      *)
(* source text) are sequences of character codes, so that strings.ToLower, *)
(* strings.HasPrefix and strings.TrimPrefix are computed, not assumed.     *)
(* Node kinds, operators and keywords are TLA+ strings.                    *)
(* A nil pointer or nil interface is the record Nil.                       *)
(***************************************************************************)
EXTENDS Integers, Sequences, FiniteSets, TLC

(* ------------------------------------------------------------------ *)
(* bounds                                                               *)
(* ------------------------------------------------------------------ *)

\* statements per source file handed to the parse loop
MaxStmts == 2

(* ------------------------------------------------------------------ *)
(* strings                                                              *)
(* ------------------------------------------------------------------ *)

\* strings.ToLower on ASCII text: 'A'..'Z' (65..90) move to 'a'..'z'
ToLower(s) ==
    [i \in 1..Len(s) |-> IF s[i] \in 65..90 THEN s[i] + 32 ELSE s[i]]

\* strings.ToUpper on ASCII text
ToUpper(s) ==
    [i \in 1..Len(s) |-> IF s[i] \in 97..122 THEN s[i] - 32 ELSE s[i]]

\* strings.HasPrefix
HasPrefix(s, p) ==
    Len(s) >= Len(p) /\ SubSeq(s, 1, Len(p)) = p

\* strings.TrimPrefix
TrimPrefix(s, p) ==
    IF HasPrefix(s, p) THEN SubSeq(s, Len(p) + 1, Len(s)) ELSE s

\* strings.Contains
Contains(s, sub) ==
    \E i \in 1..(Len(s) - Len(sub) + 1) : SubSeq(s, i, i + Len(sub) - 1) = sub

\* "sqlc_"
S_sqlc_us == <<115, 113, 108, 99, 95>>
\* "sqlc"
S_sqlc == <<115, 113, 108, 99>>
\* "arrayjoin"
S_arrayjoin == <<97, 114, 114, 97, 121, 106, 111, 105, 110>>
\* "text"
S_text == <<116, 101, 120, 116>>

\* the nil pointer / nil interface value
Nil == [kind |-> "nil"]

IsNil(n) == n.kind = "nil"

(* ------------------------------------------------------------------ *)
(* the converter: type cc, todo, identifier                             *)
(* ------------------------------------------------------------------ *)

\* &cc{}: a fresh converter, paramCount zero-valued
NewCC == [paramCount |-> 0]

\* what a convert method leaves behind: the node it returns and the
\* converter after the call
Ret(n, c) == [node |-> n, c |-> c]

\* &ast.TODO{}
TODO == [kind |-> "TODO"]

\* a todo that gives up on the node instead
todoFails(n) == [kind |-> "error"]

\* todo(n): logs when debugging, returns &ast.TODO{}
todo(n) == TODO

identifier(id) == ToLower(id)

\* &ast.String{Str: s}
AstString(s) == [kind |-> "String", Str |-> s]

NewIdentifier(t) == AstString(identifier(t))

\* &ast.List{Items: items}
AstList(items) == [kind |-> "List", Items |-> items]

\* a non-nil *string
StrPtr(s) == [kind |-> "strptr", val |-> s]

(* ------------------------------------------------------------------ *)
(* string literals of convert.go                                        *)
(* ------------------------------------------------------------------ *)

\* "JOIN"
S_JOIN == <<74, 79, 73, 78>>
\* "LEFT"
S_LEFT == <<76, 69, 70, 84>>
\* "RIGHT"
S_RIGHT == <<82, 73, 71, 72, 84>>
\* "FULL"
S_FULL == <<70, 85, 76, 76>>
\* "INNER"
S_INNER == <<73, 78, 78, 69, 82>>
\* " "
S_space == <<32>>
\* "uint8"
S_uint8 == <<117, 105, 110, 116, 56>>
\* "uint16"
S_uint16 == <<117, 105, 110, 116, 49, 54>>
\* "uint32"
S_uint32 == <<117, 105, 110, 116, 51, 50>>
\* "uint64"
S_uint64 == <<117, 105, 110, 116, 54, 52>>
\* "int8"
S_int8 == <<105, 110, 116, 56>>
\* "int16"
S_int16 == <<105, 110, 116, 49, 54>>
\* "int32"
S_int32 == <<105, 110, 116, 51, 50>>
\* "int64"
S_int64 == <<105, 110, 116, 54, 52>>
\* "int128"
S_int128 == <<105, 110, 116, 49, 50, 56>>
\* "int256"
S_int256 == <<105, 110, 116, 50, 53, 54>>
\* "float32"
S_float32 == <<102, 108, 111, 97, 116, 51, 50>>
\* "float64"
S_float64 == <<102, 108, 111, 97, 116, 54, 52>>
\* "decimal"
S_decimal == <<100, 101, 99, 105, 109, 97, 108>>
\* "string"
S_string == <<115, 116, 114, 105, 110, 103>>
\* "fixedstring"
S_fixedstring == <<102, 105, 120, 101, 100, 115, 116, 114, 105, 110, 103>>
\* "date"
S_date == <<100, 97, 116, 101>>
\* "date32"
S_date32 == <<100, 97, 116, 101, 51, 50>>
\* "datetime"
S_datetime == <<100, 97, 116, 101, 116, 105, 109, 101>>
\* "datetime64"
S_datetime64 == <<100, 97, 116, 101, 116, 105, 109, 101, 54, 52>>
\* "bool"
S_bool == <<98, 111, 111, 108>>
\* "uuid"
S_uuid == <<117, 117, 105, 100>>
\* "array"
S_array == <<97, 114, 114, 97, 121>>
\* "json"
S_json == <<106, 115, 111, 110>>
\* "numeric"
S_numeric == <<110, 117, 109, 101, 114, 105, 99>>
\* "real"
S_real == <<114, 101, 97, 108>>
\* "double precision"
S_double_precision == <<100, 111, 117, 98, 108, 101, 32, 112, 114, 101, 99, 105, 115, 105, 111, 110>>
\* "varchar"
S_varchar == <<118, 97, 114, 99, 104, 97, 114>>
\* "timestamp"
S_timestamp == <<116, 105, 109, 101, 115, 116, 97, 109, 112>>
\* "boolean"
S_boolean == <<98, 111, 111, 108, 101, 97, 110>>
\* "text[]"
S_text_arr == <<116, 101, 120, 116, 91, 93>>
\* "jsonb"
S_jsonb == <<106, 115, 111, 110, 98>>

(* ------------------------------------------------------------------ *)
(* mapClickHouseType                                                    *)
(* ------------------------------------------------------------------ *)

\* the switch of mapClickHouseType: the first case that applies, top down
mapClickHouseType(chType0) ==
    LET chType == ToLower(chType0) IN
    IF HasPrefix(chType, S_uint8) THEN S_uint8
    ELSE IF HasPrefix(chType, S_uint16) THEN S_uint16
    ELSE IF HasPrefix(chType, S_uint32) THEN S_uint32
    ELSE IF HasPrefix(chType, S_uint64) THEN S_uint64
    ELSE IF HasPrefix(chType, S_int8) THEN S_int8
    ELSE IF HasPrefix(chType, S_int16) THEN S_int16
    ELSE IF HasPrefix(chType, S_int32) THEN S_int32
    ELSE IF HasPrefix(chType, S_int64) THEN S_int64
    ELSE IF HasPrefix(chType, S_int128) THEN S_numeric
    ELSE IF HasPrefix(chType, S_int256) THEN S_numeric
    ELSE IF HasPrefix(chType, S_float32) THEN S_real
    ELSE IF HasPrefix(chType, S_float64) THEN S_double_precision
    ELSE IF HasPrefix(chType, S_decimal) THEN S_numeric
    ELSE IF chType = S_string THEN S_text
    ELSE IF HasPrefix(chType, S_fixedstring) THEN S_varchar
    ELSE IF chType = S_date THEN S_date
    ELSE IF chType = S_date32 THEN S_date
    ELSE IF chType = S_datetime THEN S_timestamp
    ELSE IF chType = S_datetime64 THEN S_timestamp
    ELSE IF chType = S_bool THEN S_boolean
    ELSE IF chType = S_uuid THEN S_uuid
    ELSE IF HasPrefix(chType, S_array) THEN S_text_arr
    ELSE IF Contains(chType, S_json) THEN S_jsonb
    ELSE S_text

\* &ast.TypeName{Name: t, Names: [NewIdentifier(t)]}
AstTypeName(t) ==
    [kind |-> "TypeName", Name |-> t, Names |-> AstList(<<NewIdentifier(t)>>)]

\* colType is a chparser.ColumnType; colType.Type() is its name, here colType.Name
convertColumnType(colType) ==
    IF IsNil(colType)
    THEN AstTypeName(S_text)
    ELSE AstTypeName(mapClickHouseType(colType.Name))

(* ------------------------------------------------------------------ *)
(* strconv.ParseInt(s, 10, 64) and strconv.ParseFloat(s, 64)            *)
(* ------------------------------------------------------------------ *)

IsDigit(ch) == ch \in 48..57

IsHexDigit(ch) == ch \in 48..57 \/ ch \in 97..102 \/ ch \in 65..70

\* '+' or '-'
IsSign(ch) == ch \in {43, 45}

AllDigits(s) == \A i \in 1..Len(s) : IsDigit(s[i])

RECURSIVE DecimalValue(_)
DecimalValue(s) ==
    IF Len(s) = 0 THEN 0
    ELSE DecimalValue(SubSeq(s, 1, Len(s) - 1)) * 10 + (s[Len(s)] - 48)

\* ParseInt(s, 10, 64): an optional sign, then decimal digits only; an
\* error when there is no digit, another character, or the value is outside
\* [-2^63, 2^63-1]. The literals enumerated here have at most nine
\* digits, far inside that range.
ParseInt(s) ==
    LET body == IF Len(s) > 0 /\ IsSign(s[1]) THEN SubSeq(s, 2, Len(s)) ELSE s
        neg == Len(s) > 0 /\ s[1] = 45
    IN  IF Len(body) = 0 \/ ~AllDigits(body) \/ Len(body) > 9
        THEN [ok |-> FALSE, val |-> 0]
        ELSE [ok |-> TRUE,
              val |-> IF neg THEN 0 - DecimalValue(body) ELSE DecimalValue(body)]

\* a mantissa: digits of the base with at most one '.', and at least one digit
IsMantissa(m, hex) ==
    /\ \A i \in 1..Len(m) :
          m[i] = 46 \/ (IF hex THEN IsHexDigit(m[i]) ELSE IsDigit(m[i]))
    /\ Cardinality({i \in 1..Len(m) : m[i] = 46}) <= 1
    /\ \E i \in 1..Len(m) : m[i] # 46

\* an exponent after its letter: an optional sign and at least one digit
IsExponent(x) ==
    LET d == IF Len(x) > 0 /\ IsSign(x[1]) THEN SubSeq(x, 2, Len(x)) ELSE x
    IN  Len(d) > 0 /\ AllDigits(d)

\* ParseFloat(s, 64) succeeds: readFloat's syntax. Decimal: mantissa, then
\* optionally e/E and an exponent. Hexadecimal (0x prefix with something
\* after it): mantissa, then p/P and an exponent, which must be present.
ParseFloatOK(s) ==
    LET t == IF Len(s) > 0 /\ IsSign(s[1]) THEN SubSeq(s, 2, Len(s)) ELSE s
        hex == Len(t) > 2 /\ t[1] = 48 /\ t[2] \in {120, 88}
        u == IF hex THEN SubSeq(t, 3, Len(t)) ELSE t
        expChars == IF hex THEN {112, 80} ELSE {101, 69}
    IN  \/ ~hex /\ IsMantissa(u, FALSE)
        \/ \E k \in 1..Len(u) :
              /\ u[k] \in expChars
              /\ IsMantissa(SubSeq(u, 1, k - 1), hex)
              /\ IsExponent(SubSeq(u, k + 1, Len(u)))

\* strings.ContainsAny(s, chars)
ContainsAny(s, chars) == \E i \in 1..Len(s) : s[i] \in chars

(* ------------------------------------------------------------------ *)
(* cc.convert and the methods it dispatches to                          *)
(*                                                                      *)
(* A method convertX(n, c) takes the chparser node and the converter    *)
(* and yields Ret(node, c'): Go evaluates the calls of a composite      *)
(* literal in the order they are written, and the converter is threaded *)
(* through them in that order.                                          *)
(* ------------------------------------------------------------------ *)

RECURSIVE convert(_, _)
RECURSIVE convertSelectQuery(_, _)
RECURSIVE convertFromExpr(_, _)
RECURSIVE convertAllFrom(_, _, _, _)
RECURSIVE convertSelectItemsFrom(_, _, _, _)
RECURSIVE convertCTEsFrom(_, _, _, _)
RECURSIVE convertWhensFrom(_, _, _, _)
RECURSIVE convertKeyValuesFrom(_, _, _, _)
RECURSIVE convertParamItemsFrom(_, _, _, _)
RECURSIVE convertValueSetsFrom(_, _, _, _)

\* for _, item := range items { list.Items = append(list.Items, c.convert(item)) }
convertAllFrom(items, i, acc, c) ==
    IF i > Len(items) THEN Ret(AstList(acc), c)
    ELSE LET r == convert(items[i], c)
         IN  convertAllFrom(items, i + 1, Append(acc, r.node), r.c)

convertAll(items, c) == convertAllFrom(items, 1, <<>>, c)

convertIdent(id, c) ==
    Ret(AstString(identifier(id.Name)), c)

convertColumnExpr(col, c) ==
    convert(col.Expr, c)

\* a convertFunctionExpr without the sqlc_ case
convertFunctionExprPlain(fn, c) ==
    LET funcName == identifier(fn.Name.Name)
        args == IF ~IsNil(fn.Params) /\ ~IsNil(fn.Params.Items)
                THEN convertAll(fn.Params.Items.Items, c)
                ELSE Ret(AstList(<<>>), c)
    IN  Ret([kind |-> "FuncCall",
             Func |-> [kind |-> "FuncName", Schema |-> <<>>, Name |-> funcName],
             Funcname |-> AstList(<<AstString(funcName)>>),
             Args |-> args.node,
             Over |-> Nil,
             Location |-> fn.pos],
            args.c)

\* a convertFunctionExpr that takes an ordinal for the call
convertFunctionExprCounting(fn, c) ==
    LET funcName == identifier(fn.Name.Name)
        isSqlc == HasPrefix(funcName, S_sqlc_us)
        schema == IF isSqlc THEN S_sqlc ELSE <<>>
        baseFuncName == IF isSqlc THEN TrimPrefix(funcName, S_sqlc_us) ELSE funcName
        args == IF ~IsNil(fn.Params) /\ ~IsNil(fn.Params.Items)
                THEN convertAll(fn.Params.Items.Items, c)
                ELSE Ret(AstList(<<>>), c)
    IN  Ret([kind |-> "FuncCall",
             Func |-> [kind |-> "FuncName", Schema |-> schema, Name |-> baseFuncName],
             Funcname |-> AstList(<<AstString(funcName)>>),
             Args |-> args.node,
             Over |-> Nil,
             Location |-> fn.pos],
            [args.c EXCEPT !.paramCount = @ + 1])

convertFunctionExpr(fn, c) ==
    LET funcName == identifier(fn.Name.Name)
        isSqlc == HasPrefix(funcName, S_sqlc_us)
        schema == IF isSqlc THEN S_sqlc ELSE <<>>
        baseFuncName == IF isSqlc THEN TrimPrefix(funcName, S_sqlc_us) ELSE funcName
        args == IF ~IsNil(fn.Params) /\ ~IsNil(fn.Params.Items)
                THEN convertAll(fn.Params.Items.Items, c)
                ELSE Ret(AstList(<<>>), c)
    IN  Ret([kind |-> "FuncCall",
             Func |-> [kind |-> "FuncName", Schema |-> schema, Name |-> baseFuncName],
             Funcname |-> AstList(<<AstString(funcName)>>),
             Args |-> args.node,
             Over |-> Nil,
             Location |-> fn.pos],
            args.c)

convertBinaryOperation(op, c) ==
    LET l == convert(op.LeftExpr, c)
        r == convert(op.RightExpr, l.c)
    IN  Ret([kind |-> "A_Expr",
             Kind |-> 0,
             Name |-> AstList(<<AstString(op.Operation)>>),
             Lexpr |-> l.node,
             Rexpr |-> r.node,
             Location |-> op.pos],
            r.c)

\* &ast.A_Const{Val: v, Location: loc}
AstConst(v, loc) == [kind |-> "A_Const", Val |-> v, Location |-> loc]

AstInteger(i) == [kind |-> "Integer", Ival |-> i]

AstFloat(s) == [kind |-> "Float", Str |-> s]

convertNumberLiteral(num, c) ==
    IF IsNil(num) \/ num.Literal = <<>>
    THEN Ret(AstConst(AstInteger(0), 0), c)
    ELSE LET numStr == num.Literal
             \* '.', 'e', 'E'
             ival == ParseInt(numStr)
         IN  IF ~ContainsAny(numStr, {46, 101, 69}) /\ ival.ok
             THEN Ret(AstConst(AstInteger(ival.val), num.pos), c)
             ELSE IF ParseFloatOK(numStr)
             THEN Ret(AstConst(AstFloat(numStr), num.pos), c)
             ELSE Ret(AstConst(AstInteger(0), num.pos), c)

\* a convertStringLiteral that steps back from every position
convertStringLiteralStepsBack(str, c) ==
    Ret(AstConst(AstString(str.Literal), str.pos - 1), c)

convertStringLiteral(str, c) ==
    LET pos == IF str.pos > 0 THEN str.pos - 1 ELSE str.pos
    IN  Ret(AstConst(AstString(str.Literal), pos), c)

\* &ast.ParamRef{Number: n, Location: loc, Dollar: false}
AstParamRef(n, loc) ==
    [kind |-> "ParamRef", Number |-> n, Location |-> loc, Dollar |-> FALSE]

\* a convertQueryParam that hands out the next number without counting it
convertQueryParamUncounted(param, c) ==
    Ret(AstParamRef(c.paramCount + 1, param.pos), c)

convertQueryParam(param, c) ==
    LET c1 == [c EXCEPT !.paramCount = @ + 1]
    IN  Ret(AstParamRef(c1.paramCount, param.pos), c1)

convertNestedIdentifier(nested, c) ==
    LET f1 == IF ~IsNil(nested.Ident)
              THEN <<AstString(identifier(nested.Ident.Name))>> ELSE <<>>
        f2 == IF ~IsNil(nested.DotIdent)
              THEN <<AstString(identifier(nested.DotIdent.Name))>> ELSE <<>>
    IN  Ret([kind |-> "ColumnRef",
             Fields |-> AstList(f1 \o f2),
             Location |-> nested.pos],
            c)

convertOrderExpr(order, c) ==
    IF IsNil(order) THEN Ret(TODO, c)
    ELSE LET r == convert(order.Expr, c)
         IN  Ret([kind |-> "SortBy",
                  Node |-> r.node,
                  SortbyDir |-> CASE order.Direction = "DESC" -> "SortByDirDesc"
                                  [] order.Direction = "ASC" -> "SortByDirAsc"
                                  [] OTHER -> "SortByDirDefault",
                  Location |-> order.pos],
                 r.c)

\* a convertPlaceHolder that counts the marker twice
convertPlaceHolderTwice(ph, c) ==
    LET c1 == [c EXCEPT !.paramCount = @ + 2]
    IN  Ret(AstParamRef(c1.paramCount, ph.pos), c1)

convertPlaceHolder(ph, c) ==
    LET c1 == [c EXCEPT !.paramCount = @ + 1]
    IN  Ret(AstParamRef(c1.paramCount, ph.pos), c1)

\* the type assertion castExpr.AsType.(chparser.ColumnType)
IsColumnType(n) == n.kind \in {"ScalarType", "ComplexType", "TypeWithParams"}

convertCastExpr(castExpr, c) ==
    IF IsNil(castExpr) THEN Ret(TODO, c)
    ELSE LET expr == convert(castExpr.Expr, c)
             typeName ==
                 IF IsNil(castExpr.AsType) THEN Nil
                 ELSE IF IsColumnType(castExpr.AsType)
                 THEN convertColumnType(castExpr.AsType)
                 ELSE IF castExpr.AsType.kind = "Ident"
                 THEN AstTypeName(identifier(castExpr.AsType.Name))
                 ELSE AstTypeName(S_text)
         IN  Ret([kind |-> "TypeCast",
                  Arg |-> expr.node,
                  TypeName |-> typeName,
                  Location |-> castExpr.pos],
                 expr.c)

\* for _, when := range caseExpr.Whens: the WHEN condition, then its THEN
convertWhensFrom(whens, i, acc, c) ==
    IF i > Len(whens) THEN Ret(AstList(acc), c)
    ELSE IF IsNil(whens[i]) THEN convertWhensFrom(whens, i + 1, acc, c)
    ELSE LET w == convert(whens[i].When, c)
             t == convert(whens[i].Then, w.c)
         IN  convertWhensFrom(whens, i + 1, acc \o <<w.node, t.node>>, t.c)

convertCaseExpr(caseExpr, c) ==
    IF IsNil(caseExpr) THEN Ret(TODO, c)
    ELSE LET arg == IF ~IsNil(caseExpr.Expr) THEN convert(caseExpr.Expr, c)
                    ELSE Ret(Nil, c)
             args == convertWhensFrom(caseExpr.Whens, 1, <<>>, arg.c)
             elseExpr == IF ~IsNil(caseExpr.Else) THEN convert(caseExpr.Else, args.c)
                         ELSE Ret(Nil, args.c)
         IN  Ret([kind |-> "CaseExpr",
                  Arg |-> arg.node,
                  Args |-> args.node,
                  Defresult |-> elseExpr.node,
                  Location |-> caseExpr.pos],
                 elseExpr.c)

convertOrderByClause(orderBy, c) ==
    IF IsNil(orderBy) THEN Ret(AstList(<<>>), c)
    ELSE convertAll(orderBy.Items, c)

convertWindowDef(winDef, c) ==
    IF IsNil(winDef) THEN Ret(Nil, c)
    ELSE LET hasPart == ~IsNil(winDef.PartitionBy) /\ ~IsNil(winDef.PartitionBy.Expr)
             part == IF hasPart THEN convert(winDef.PartitionBy.Expr, c) ELSE Ret(Nil, c)
             ord == IF ~IsNil(winDef.OrderBy)
                    THEN convertOrderByClause(winDef.OrderBy, part.c)
                    ELSE Ret(Nil, part.c)
         IN  Ret([kind |-> "WindowDef",
                  PartitionClause |-> IF hasPart THEN AstList(<<part.node>>) ELSE Nil,
                  OrderClause |-> ord.node,
                  Location |-> winDef.pos],
                 ord.c)

convertWindowFunctionExpr(winExpr, c) ==
    IF IsNil(winExpr) THEN Ret(TODO, c)
    ELSE LET funcCall == convertFunctionExpr(winExpr.Function, c)
             over == IF ~IsNil(winExpr.OverExpr) /\ winExpr.OverExpr.kind = "WindowExpr"
                     THEN convertWindowDef(winExpr.OverExpr, funcCall.c)
                     ELSE Ret(Nil, funcCall.c)
         IN  Ret([funcCall.node EXCEPT !.Over = over.node], over.c)

convertIsNullExpr(isNull, c) ==
    IF IsNil(isNull) THEN Ret(TODO, c)
    ELSE LET r == convert(isNull.Expr, c)
         IN  Ret([kind |-> "NullTest", Arg |-> r.node, Nulltesttype |-> 0,
                  Location |-> isNull.pos], r.c)

convertIsNotNullExpr(isNotNull, c) ==
    IF IsNil(isNotNull) THEN Ret(TODO, c)
    ELSE LET r == convert(isNotNull.Expr, c)
         IN  Ret([kind |-> "NullTest", Arg |-> r.node, Nulltesttype |-> 1,
                  Location |-> isNotNull.pos], r.c)

convertUnaryExpr(unary, c) ==
    IF IsNil(unary) THEN Ret(TODO, c)
    ELSE LET r == convert(unary.Expr, c)
         IN  Ret([kind |-> "A_Expr",
                  Kind |-> 1,
                  Name |-> AstList(<<AstString(unary.Kind)>>),
                  Lexpr |-> Nil,
                  Rexpr |-> r.node,
                  Location |-> unary.pos],
                 r.c)

\* for _, kv := range mapLit.KeyValues: the key (a StringLiteral), then the
\* value when there is one
convertKeyValuesFrom(kvs, i, acc, c) ==
    IF i > Len(kvs) THEN Ret(AstList(acc), c)
    ELSE LET k == convert(kvs[i].Key, c)
             v == IF ~IsNil(kvs[i].Value) THEN convert(kvs[i].Value, k.c)
                  ELSE Ret(Nil, k.c)
         IN  convertKeyValuesFrom(
                 kvs, i + 1,
                 IF ~IsNil(kvs[i].Value) THEN acc \o <<k.node, v.node>>
                 ELSE Append(acc, k.node),
                 v.c)

convertMapLiteral(mapLit, c) ==
    IF IsNil(mapLit) THEN Ret(TODO, c)
    ELSE LET items == convertKeyValuesFrom(mapLit.KeyValues, 1, <<>>, c)
         IN  Ret(AstConst(items.node, mapLit.pos), items.c)

\* the loop of convertParamExprList: a ColumnExpr item is unwrapped
convertParamItemsFrom(items, i, acc, c) ==
    IF i > Len(items) THEN Ret(AstList(acc), c)
    ELSE LET r == IF items[i].kind = "ColumnExpr"
                  THEN convert(items[i].Expr, c)
                  ELSE convert(items[i], c)
         IN  convertParamItemsFrom(items, i + 1, Append(acc, r.node), r.c)

convertParamExprList(paramList, c) ==
    IF IsNil(paramList) \/ IsNil(paramList.Items) THEN Ret(TODO, c)
    ELSE IF Len(paramList.Items.Items) = 1
    THEN convert(paramList.Items.Items[1], c)
    ELSE convertParamItemsFrom(paramList.Items.Items, 1, <<>>, c)

(* ------------------------------------------------------------------ *)
(* SELECT                                                               *)
(* ------------------------------------------------------------------ *)

convertSelectItem(item, c) ==
    LET name == IF ~IsNil(item.Alias) THEN StrPtr(identifier(item.Alias.Name)) ELSE Nil
        val == convert(item.Expr, c)
    IN  Ret([kind |-> "ResTarget",
             Name |-> name,
             Val |-> val.node,
             Location |-> item.pos],
            val.c)

convertSelectItemsFrom(items, i, acc, c) ==
    IF i > Len(items) THEN Ret(AstList(acc), c)
    ELSE LET r == convertSelectItem(items[i], c)
         IN  convertSelectItemsFrom(items, i + 1, Append(acc, r.node), r.c)

convertSelectItems(items, c) == convertSelectItemsFrom(items, 1, <<>>, c)

\* &ast.RangeVar{Schemaname: schema, Relname: table, Location: loc}
AstRangeVar(schema, table, loc) ==
    [kind |-> "RangeVar", Schemaname |-> schema, Relname |-> table, Location |-> loc]

convertTableIdentifier(ident) ==
    LET schema == IF ~IsNil(ident.Database)
                  THEN StrPtr(identifier(ident.Database.Name)) ELSE Nil
        table == IF ~IsNil(ident.Table)
                 THEN StrPtr(identifier(ident.Table.Name)) ELSE Nil
    IN  AstRangeVar(schema, table, ident.pos)

convertTableExpr(expr, c) ==
    IF IsNil(expr) THEN Ret(TODO, c)
    ELSE IF expr.Expr.kind = "TableIdentifier"
    THEN Ret(convertTableIdentifier(expr.Expr), c)
    ELSE IF expr.Expr.kind = "SelectQuery"
    THEN LET sub == convert(expr.Expr, c)
             \* Aliasname: &aliasIdent.Name, the parser's spelling
             alias == IF ~IsNil(expr.Alias) /\ expr.Alias.Alias.kind = "Ident"
                      THEN [kind |-> "Alias", Aliasname |-> StrPtr(expr.Alias.Alias.Name)]
                      ELSE Nil
         IN  Ret([kind |-> "RangeSubselect", Subquery |-> sub.node, Alias |-> alias],
                 sub.c)
    ELSE convert(expr.Expr, c)

\* a parseJoinType that looks for RIGHT before LEFT
parseJoinTypeRightFirst(joinType) ==
    LET upperType == ToUpper(joinType)
    IN  IF Contains(upperType, S_RIGHT) THEN "JoinTypeRight"
        ELSE IF Contains(upperType, S_LEFT) THEN "JoinTypeLeft"
        ELSE IF Contains(upperType, S_FULL) THEN "JoinTypeFull"
        ELSE "JoinTypeInner"

parseJoinType(joinType) ==
    LET upperType == ToUpper(joinType)
    IN  IF Contains(upperType, S_LEFT) THEN "JoinTypeLeft"
        ELSE IF Contains(upperType, S_RIGHT) THEN "JoinTypeRight"
        ELSE IF Contains(upperType, S_FULL) THEN "JoinTypeFull"
        ELSE IF Contains(upperType, S_INNER) THEN "JoinTypeInner"
        ELSE "JoinTypeInner"

\* for _, mod := range join.Modifiers: a LEFT / RIGHT / FULL / INNER modifier
\* is put in front of the join type string
RECURSIVE joinTypeFrom(_, _, _)
joinTypeFrom(mods, i, joinType) ==
    IF i > Len(mods) THEN joinType
    ELSE LET modUpper == ToUpper(mods[i])
         IN  joinTypeFrom(mods, i + 1,
                 IF modUpper \in {S_LEFT, S_RIGHT, S_FULL, S_INNER}
                 THEN modUpper \o S_space \o joinType
                 ELSE joinType)

convertJoinExpr(join, c) ==
    LET l == convertFromExpr(join.Left, c)
        r == convertFromExpr(join.Right, l.c)
        joinType == joinTypeFrom(join.Modifiers, 1, S_JOIN)
        quals == IF ~IsNil(join.Constraints) THEN convert(join.Constraints, r.c)
                 ELSE Ret(Nil, r.c)
    IN  Ret([kind |-> "JoinExpr",
             Larg |-> l.node,
             Rarg |-> r.node,
             Jointype |-> parseJoinType(joinType),
             Quals |-> quals.node],
            quals.c)

convertFromExpr(expr, c) ==
    IF IsNil(expr) THEN Ret(TODO, c)
    ELSE IF expr.kind = "TableExpr" THEN convertTableExpr(expr, c)
    ELSE IF expr.kind = "JoinExpr" THEN convertJoinExpr(expr, c)
    ELSE convert(expr, c)

convertFromClause(from, c) ==
    IF IsNil(from) THEN Ret(AstList(<<>>), c)
    ELSE IF ~IsNil(from.Expr)
    THEN LET r == convertFromExpr(from.Expr, c) IN Ret(AstList(<<r.node>>), r.c)
    ELSE Ret(AstList(<<>>), c)

convertWhereClause(where, c) ==
    IF IsNil(where) THEN Ret(Nil, c) ELSE convert(where.Expr, c)

convertGroupByClause(groupBy, c) ==
    IF IsNil(groupBy) THEN Ret(AstList(<<>>), c)
    ELSE IF ~IsNil(groupBy.Expr)
    THEN LET r == convert(groupBy.Expr, c) IN Ret(AstList(<<r.node>>), r.c)
    ELSE Ret(AstList(<<>>), c)

convertHavingClause(having, c) ==
    IF IsNil(having) THEN Ret(Nil, c) ELSE convert(having.Expr, c)

convertLimitClause(limit, c) ==
    IF IsNil(limit) \/ IsNil(limit.Limit) THEN Ret(Nil, c)
    ELSE convert(limit.Limit, c)

convertCTE(cte, c) ==
    IF IsNil(cte) THEN Ret(Nil, c)
    ELSE LET cteName == IF cte.Expr.kind = "Ident"
                        THEN StrPtr(identifier(cte.Expr.Name)) ELSE Nil
             q == convert(cte.Alias, c)
         IN  Ret([kind |-> "CommonTableExpr",
                  Ctename |-> cteName,
                  Ctequery |-> q.node,
                  Location |-> cte.pos],
                 q.c)

convertCTEsFrom(ctes, i, acc, c) ==
    IF i > Len(ctes) THEN Ret(AstList(acc), c)
    ELSE LET r == convertCTE(ctes[i], c)
         IN  convertCTEsFrom(ctes, i + 1, Append(acc, r.node), r.c)

convertWithClause(with, c) ==
    IF IsNil(with) THEN Ret(Nil, c)
    ELSE LET list == convertCTEsFrom(with.CTEs, 1, <<>>, c)
         IN  Ret([kind |-> "WithClause", Ctes |-> list.node, Location |-> with.pos],
                 list.c)

\* &ast.FuncCall{Func: &ast.FuncName{Name: "arrayjoin"}, Args: [arrayExpr]}:
\* the fields it leaves out keep Go's zero values
ArrayJoinFuncCall(arrayExpr) ==
    [kind |-> "FuncCall",
     Func |-> [kind |-> "FuncName", Schema |-> <<>>, Name |-> S_arrayjoin],
     Funcname |-> Nil,
     Args |-> AstList(<<arrayExpr>>),
     Over |-> Nil,
     Location |-> 0]

convertArrayJoinItem(expr, joinType, c) ==
    IF IsNil(expr) THEN Ret(Nil, c)
    ELSE IF expr.kind = "SelectItem"
    THEN LET arrayExpr == convert(expr.Expr, c)
             alias == IF ~IsNil(expr.Alias)
                      THEN [kind |-> "Alias",
                            Aliasname |-> StrPtr(identifier(expr.Alias.Name))]
                      ELSE Nil
         IN  Ret([kind |-> "RangeFunction",
                  Lateral |-> (joinType = "LEFT"),
                  Functions |-> AstList(<<ArrayJoinFuncCall(arrayExpr.node)>>),
                  Alias |-> alias],
                 arrayExpr.c)
    ELSE LET arrayExpr == convert(expr, c)
         IN  Ret([kind |-> "RangeFunction",
                  Lateral |-> (joinType = "LEFT"),
                  Functions |-> AstList(<<ArrayJoinFuncCall(arrayExpr.node)>>),
                  Alias |-> Nil],
                 arrayExpr.c)

convertArrayJoinClause(arrayJoin, c) ==
    IF IsNil(arrayJoin) THEN Ret(Nil, c)
    ELSE IF arrayJoin.Expr.kind = "ColumnExprList" /\ Len(arrayJoin.Expr.Items) > 0
    THEN convertArrayJoinItem(arrayJoin.Expr.Items[1], arrayJoin.Type, c)
    ELSE convertArrayJoinItem(arrayJoin.Expr, arrayJoin.Type, c)

mergeArrayJoinIntoFrom(fromClause, arrayJoin, c) ==
    LET from == IF IsNil(fromClause) THEN AstList(<<>>) ELSE fromClause
        arrayJoinNode == convertArrayJoinClause(arrayJoin, c)
    IN  Ret(IF ~IsNil(arrayJoinNode.node)
            THEN AstList(Append(from.Items, arrayJoinNode.node))
            ELSE from,
            arrayJoinNode.c)

\* selectStmt.Larg = selectStmt: the pointer to the node itself. Every call of
\* convertSelectQuery allocates one ast.SelectStmt; addr is that allocation,
\* named by the position of the SelectQuery it was allocated for.
Ptr(addr) == [kind |-> "Ptr", addr |-> addr]

convertSelectQuery(stmt, c) ==
    LET targetList == convertSelectItems(stmt.SelectItems, c)
        fromClause == convertFromClause(stmt.From, targetList.c)
        whereClause == convertWhereClause(stmt.Where, fromClause.c)
        groupClause == convertGroupByClause(stmt.GroupBy, whereClause.c)
        havingClause == convertHavingClause(stmt.Having, groupClause.c)
        sortClause == convertOrderByClause(stmt.OrderBy, havingClause.c)
        withClause == convertWithClause(stmt.With, sortClause.c)
        merged == IF ~IsNil(stmt.ArrayJoin)
                  THEN mergeArrayJoinIntoFrom(fromClause.node, stmt.ArrayJoin, withClause.c)
                  ELSE Ret(fromClause.node, withClause.c)
        limitCount == IF ~IsNil(stmt.Limit)
                      THEN convertLimitClause(stmt.Limit, merged.c)
                      ELSE Ret(Nil, merged.c)
        limitOffset == IF ~IsNil(stmt.Limit) /\ ~IsNil(stmt.Limit.Offset)
                       THEN convert(stmt.Limit.Offset, limitCount.c)
                       ELSE Ret(Nil, limitCount.c)
        rightQuery == IF ~IsNil(stmt.UnionAll) THEN stmt.UnionAll
                      ELSE IF ~IsNil(stmt.UnionDistinct) THEN stmt.UnionDistinct
                      ELSE stmt.Except
        composite == ~IsNil(rightQuery)
        rarg == IF composite THEN convertSelectQuery(rightQuery, limitOffset.c)
                ELSE Ret(Nil, limitOffset.c)
    IN  Ret([kind |-> "SelectStmt",
             addr |-> stmt.pos,
             TargetList |-> targetList.node,
             FromClause |-> merged.node,
             WhereClause |-> whereClause.node,
             GroupClause |-> groupClause.node,
             HavingClause |-> havingClause.node,
             SortClause |-> sortClause.node,
             WithClause |-> withClause.node,
             DistinctClause |-> IF stmt.HasDistinct THEN AstList(<<>>) ELSE Nil,
             LimitCount |-> limitCount.node,
             LimitOffset |-> limitOffset.node,
             ValuesLists |-> Nil,
             Op |-> IF ~IsNil(stmt.UnionAll) \/ ~IsNil(stmt.UnionDistinct) THEN "Union"
                    ELSE IF ~IsNil(stmt.Except) THEN "Except"
                    ELSE "None",
             All |-> ~IsNil(stmt.UnionAll),
             Larg |-> IF composite THEN Ptr(stmt.pos) ELSE Nil,
             Rarg |-> rarg.node],
            rarg.c)

(* ------------------------------------------------------------------ *)
(* INSERT                                                               *)
(* ------------------------------------------------------------------ *)

convertTableExprToRangeVar(expr) ==
    IF expr.kind = "TableIdentifier" THEN convertTableIdentifier(expr)
    ELSE IF expr.kind = "Ident"
    THEN AstRangeVar(Nil, StrPtr(identifier(expr.Name)), expr.pos)
    ELSE AstRangeVar(Nil, Nil, 0)

RECURSIVE columnNamesFrom(_, _, _)
columnNamesFrom(cols, i, acc) ==
    IF i > Len(cols) THEN acc
    ELSE columnNamesFrom(cols, i + 1,
             acc \o (IF ~IsNil(cols[i].Ident)
                     THEN <<AstString(identifier(cols[i].Ident.Name))>> ELSE <<>>)
                 \o (IF ~IsNil(cols[i].DotIdent)
                     THEN <<AstString(identifier(cols[i].DotIdent.Name))>> ELSE <<>>))

convertColumnNames(colNames) ==
    IF IsNil(colNames) THEN AstList(<<>>)
    ELSE AstList(columnNamesFrom(colNames.ColumnNames, 1, <<>>))

convertValueSetsFrom(values, i, acc, c) ==
    IF i > Len(values) THEN Ret(AstList(acc), c)
    ELSE LET inner == convertAll(values[i].Values, c)
         IN  convertValueSetsFrom(values, i + 1, Append(acc, inner.node), inner.c)

\* a convertValues that stops after the first row
convertValuesFirstRow(values, c) == convertValueSetsFrom(SubSeq(values, 1, 1), 1, <<>>, c)

convertValues(values, c) == convertValueSetsFrom(values, 1, <<>>, c)

convertInsertStmt(stmt, c) ==
    LET relation == convertTableExprToRangeVar(stmt.Table)
        cols == convertColumnNames(stmt.ColumnNames)
        values == IF Len(stmt.Values) > 0 THEN convertValues(stmt.Values, c)
                  ELSE Ret(Nil, c)
        valuesSelect ==
            IF Len(stmt.Values) > 0
            THEN [kind |-> "SelectStmt",
                  addr |-> stmt.pos,
                  TargetList |-> AstList(<<>>),
                  FromClause |-> AstList(<<>>),
                  WhereClause |-> Nil,
                  GroupClause |-> Nil,
                  HavingClause |-> Nil,
                  SortClause |-> Nil,
                  WithClause |-> Nil,
                  DistinctClause |-> Nil,
                  LimitCount |-> Nil,
                  LimitOffset |-> Nil,
                  ValuesLists |-> values.node,
                  Op |-> "None",
                  All |-> FALSE,
                  Larg |-> Nil,
                  Rarg |-> Nil]
            ELSE Nil
        sel == IF ~IsNil(stmt.SelectExpr) THEN convert(stmt.SelectExpr, values.c)
               ELSE Ret(valuesSelect, values.c)
    IN  Ret([kind |-> "InsertStmt",
             Relation |-> relation,
             Cols |-> cols,
             ReturningList |-> AstList(<<>>),
             SelectStmt |-> sel.node],
            sel.c)

(* ------------------------------------------------------------------ *)
(* DDL and maintenance statements                                       *)
(* ------------------------------------------------------------------ *)

\* a convertColumnDef for which a column without Nullable is NOT NULL
convertColumnDefStrict(col) ==
    IF IsNil(col) THEN TODO
    ELSE [kind |-> "ColumnDef",
          Colname |-> IF ~IsNil(col.Name.Ident) THEN identifier(col.Name.Ident.Name)
                      ELSE identifier(col.Name.DotIdent.Name),
          TypeName |-> IF ~IsNil(col.Type) THEN convertColumnType(col.Type) ELSE Nil,
          IsNotNull |-> TRUE]

convertColumnDef(col) ==
    IF IsNil(col) THEN TODO
    ELSE [kind |-> "ColumnDef",
          Colname |-> IF ~IsNil(col.Name)
                      THEN IF ~IsNil(col.Name.Ident)
                           THEN identifier(col.Name.Ident.Name)
                           ELSE IF ~IsNil(col.Name.DotIdent)
                           THEN identifier(col.Name.DotIdent.Name)
                           ELSE <<>>
                      ELSE <<>>,
          TypeName |-> IF ~IsNil(col.Type) THEN convertColumnType(col.Type) ELSE Nil,
          IsNotNull |-> ~IsNil(col.NotNull)]

RECURSIVE columnDefsFrom(_, _, _)
columnDefsFrom(cols, i, acc) ==
    IF i > Len(cols) THEN acc
    ELSE columnDefsFrom(cols, i + 1,
             IF cols[i].kind = "ColumnDef" /\ convertColumnDef(cols[i]).kind = "ColumnDef"
             THEN Append(acc, convertColumnDef(cols[i]))
             ELSE acc)

convertCreateTable(stmt) ==
    IF IsNil(stmt) THEN TODO
    ELSE LET hasDb == ~IsNil(stmt.Name) /\ ~IsNil(stmt.Name.Database)
             hasTable == ~IsNil(stmt.Name) /\ ~IsNil(stmt.Name.Table)
             \* a bare "users" is in Name.Database: it becomes the table name
             schema == IF hasDb /\ hasTable THEN identifier(stmt.Name.Database.Name)
                       ELSE <<>>
             table == IF hasTable THEN identifier(stmt.Name.Table.Name)
                      ELSE IF hasDb THEN identifier(stmt.Name.Database.Name)
                      ELSE <<>>
         IN  [kind |-> "CreateTableStmt",
              Name |-> [kind |-> "TableName", Schema |-> schema, Name |-> table],
              IfNotExists |-> stmt.IfNotExists,
              Cols |-> IF ~IsNil(stmt.TableSchema) /\ Len(stmt.TableSchema.Columns) > 0
                       THEN columnDefsFrom(stmt.TableSchema.Columns, 1, <<>>)
                       ELSE <<>>]

convertCreateDatabase(stmt) ==
    IF IsNil(stmt) THEN TODO
    ELSE [kind |-> "CreateSchemaStmt",
          Name |-> StrPtr(IF ~IsNil(stmt.Name) /\ stmt.Name.kind = "Ident"
                          THEN identifier(stmt.Name.Name) ELSE <<>>),
          IfNotExists |-> stmt.IfNotExists]

convertDropStmt(stmt) == TODO

convertAlterTable(stmt) == TODO

convertOptimizeStmt(stmt) == TODO

convertDescribeStmt(stmt) == TODO

convertExplainStmt(stmt) == TODO

convertShowStmt(stmt) == TODO

\* a convertTruncateTable that makes a statement node of its own
convertTruncateTableAsStmt(stmt) == [kind |-> "TruncateStmt"]

convertTruncateTable(stmt) == TODO

convertJoinTableExpr(jte, c) ==
    IF IsNil(jte) \/ IsNil(jte.Table) THEN Ret(TODO, c)
    ELSE convertTableExpr(jte.Table, c)

(* ------------------------------------------------------------------ *)
(* cc.convert: the type switch                                          *)
(* ------------------------------------------------------------------ *)

convert(node, c) ==
    IF IsNil(node) THEN Ret(Nil, c)
    ELSE CASE node.kind = "SelectQuery" -> convertSelectQuery(node, c)
           [] node.kind = "InsertStmt" -> convertInsertStmt(node, c)
           [] node.kind = "AlterTable" -> Ret(convertAlterTable(node), c)
           [] node.kind = "CreateTable" -> Ret(convertCreateTable(node), c)
           [] node.kind = "CreateDatabase" -> Ret(convertCreateDatabase(node), c)
           [] node.kind = "DropStmt" -> Ret(convertDropStmt(node), c)
           [] node.kind = "OptimizeStmt" -> Ret(convertOptimizeStmt(node), c)
           [] node.kind = "DescribeStmt" -> Ret(convertDescribeStmt(node), c)
           [] node.kind = "ExplainStmt" -> Ret(convertExplainStmt(node), c)
           [] node.kind = "ShowStmt" -> Ret(convertShowStmt(node), c)
           [] node.kind = "TruncateTable" -> Ret(convertTruncateTable(node), c)
           [] node.kind = "Ident" -> convertIdent(node, c)
           [] node.kind = "ColumnExpr" -> convertColumnExpr(node, c)
           [] node.kind = "FunctionExpr" -> convertFunctionExpr(node, c)
           [] node.kind = "BinaryOperation" -> convertBinaryOperation(node, c)
           [] node.kind = "NumberLiteral" -> convertNumberLiteral(node, c)
           [] node.kind = "StringLiteral" -> convertStringLiteral(node, c)
           [] node.kind = "QueryParam" -> convertQueryParam(node, c)
           [] node.kind = "NestedIdentifier" -> convertNestedIdentifier(node, c)
           [] node.kind = "OrderExpr" -> convertOrderExpr(node, c)
           [] node.kind = "PlaceHolder" -> convertPlaceHolder(node, c)
           [] node.kind = "JoinTableExpr" -> convertJoinTableExpr(node, c)
           [] node.kind = "CastExpr" -> convertCastExpr(node, c)
           [] node.kind = "CaseExpr" -> convertCaseExpr(node, c)
           [] node.kind = "WindowFunctionExpr" -> convertWindowFunctionExpr(node, c)
           [] node.kind = "IsNullExpr" -> convertIsNullExpr(node, c)
           [] node.kind = "IsNotNullExpr" -> convertIsNotNullExpr(node, c)
           [] node.kind = "UnaryExpr" -> convertUnaryExpr(node, c)
           [] node.kind = "MapLiteral" -> convertMapLiteral(node, c)
           [] node.kind = "ParamExprList" -> convertParamExprList(node, c)
           [] OTHER -> Ret(todo(node), c)

(* ------------------------------------------------------------------ *)
(* chparser nodes, as the parser hands them to the converter            *)
(*                                                                      *)
(* pos is Pos(), the byte offset of the node in the source text. Only   *)
(* the fields that convert.go reads are kept.                           *)
(* ------------------------------------------------------------------ *)

Ident(name, pos) == [kind |-> "Ident", Name |-> name, pos |-> pos]

PlaceHolder(pos) == [kind |-> "PlaceHolder", pos |-> pos]

QueryParam(pos) == [kind |-> "QueryParam", pos |-> pos]

NumberLiteral(lit, pos) == [kind |-> "NumberLiteral", Literal |-> lit, pos |-> pos]

\* 'lit' with its opening quote at quotePos: Pos() is the first byte inside
\* the quotes (convert.go, convertStringLiteral's comment)
StringLiteral(lit, quotePos) ==
    [kind |-> "StringLiteral", Literal |-> lit, pos |-> quotePos + 1]

ColumnExpr(e) == [kind |-> "ColumnExpr", Expr |-> e, pos |-> e.pos]

NestedIdentifier(id, dot) ==
    [kind |-> "NestedIdentifier", Ident |-> id, DotIdent |-> dot, pos |-> id.pos]

\* left op right: the operation starts where its left operand starts
BinaryOperation(l, op, r) ==
    [kind |-> "BinaryOperation", LeftExpr |-> l, Operation |-> op, RightExpr |-> r,
     pos |-> l.pos]

ColumnExprList(items) == [kind |-> "ColumnExprList", Items |-> items]

\* (items): a parenthesised list, the parenthesis at pos
ParamExprList(items, pos) ==
    [kind |-> "ParamExprList", Items |-> ColumnExprList(items), pos |-> pos]

\* name(args): the call starts at its name
FunctionExpr(name, args) ==
    [kind |-> "FunctionExpr", Name |-> name,
     Params |-> ParamExprList(args, name.pos + Len(name.Name)),
     pos |-> name.pos]

OrderExpr(e, dir) == [kind |-> "OrderExpr", Expr |-> e, Direction |-> dir, pos |-> e.pos]

\* a chparser.ColumnType; Name is what Type() returns
ScalarType(name, pos) == [kind |-> "ScalarType", Name |-> name, pos |-> pos]

\* CAST(e AS t) with the keyword at pos
CastExpr(e, t, pos) == [kind |-> "CastExpr", Expr |-> e, AsType |-> t, pos |-> pos]

WhenClause(w, t) == [kind |-> "WhenClause", When |-> w, Then |-> t]

\* CASE [e] WHEN .. THEN .. [ELSE ..] END with the keyword at pos
CaseExpr(e, whens, els, pos) ==
    [kind |-> "CaseExpr", Expr |-> e, Whens |-> whens, Else |-> els, pos |-> pos]

IsNullExpr(e) == [kind |-> "IsNullExpr", Expr |-> e, pos |-> e.pos]

IsNotNullExpr(e) == [kind |-> "IsNotNullExpr", Expr |-> e, pos |-> e.pos]

UnaryExpr(op, e, pos) == [kind |-> "UnaryExpr", Kind |-> op, Expr |-> e, pos |-> pos]

\* cond ? a : b, a node kind outside convert's type switch
TernaryOperation(cond, a, b) ==
    [kind |-> "TernaryOperation", Condition |-> cond, TrueExpr |-> a, FalseExpr |-> b,
     pos |-> cond.pos]

\* [items], a node kind outside convert's type switch
ArrayParamList(items, pos) == [kind |-> "ArrayParamList", Items |-> items, pos |-> pos]

OrderByClause(items) == [kind |-> "OrderByClause", Items |-> items]

PartitionByClause(e) == [kind |-> "PartitionByClause", Expr |-> e]

\* (PARTITION BY .. ORDER BY ..) with the parenthesis at pos
WindowExpr(part, ord, pos) ==
    [kind |-> "WindowExpr", PartitionBy |-> part, OrderBy |-> ord, pos |-> pos]

WindowFunctionExpr(fn, over) ==
    [kind |-> "WindowFunctionExpr", Function |-> fn, OverExpr |-> over, pos |-> fn.pos]

SelectItem(e, alias) == [kind |-> "SelectItem", Expr |-> e, Alias |-> alias, pos |-> e.pos]

\* database.table, or a bare name: in Table, or with Table nil in Database,
\* where convertCreateTable's comment says the parser puts it
TableIdentifier(db, table) ==
    [kind |-> "TableIdentifier", Database |-> db, Table |-> table,
     pos |-> IF IsNil(db) THEN table.pos ELSE db.pos]

AliasExpr(alias) == [kind |-> "AliasExpr", Alias |-> alias]

TableExpr(e, alias) == [kind |-> "TableExpr", Expr |-> e, Alias |-> alias, pos |-> e.pos]

JoinTableExpr(t) == [kind |-> "JoinTableExpr", Table |-> t, pos |-> t.pos]

JoinExpr(l, r, mods, on) ==
    [kind |-> "JoinExpr", Left |-> l, Right |-> r, Modifiers |-> mods,
     Constraints |-> on, pos |-> l.pos]

FromClause(e) == [kind |-> "FromClause", Expr |-> e]

WhereClause(e) == [kind |-> "WhereClause", Expr |-> e]

GroupByClause(e) == [kind |-> "GroupByClause", Expr |-> e]

HavingClause(e) == [kind |-> "HavingClause", Expr |-> e]

LimitClause(limit, offset) == [kind |-> "LimitClause", Limit |-> limit, Offset |-> offset]

ArrayJoinClause(type, e) == [kind |-> "ArrayJoinClause", Type |-> type, Expr |-> e]

\* name AS (query) with the name at pos
CTEStmt(name, query) ==
    [kind |-> "CTEStmt", Expr |-> name, Alias |-> query, pos |-> name.pos]

\* WITH ctes with the keyword at pos
WithClause(ctes, pos) == [kind |-> "WithClause", CTEs |-> ctes, pos |-> pos]

\* a SELECT with the keyword at pos and no clause but its select list
SelectQuery(items, pos) ==
    [kind |-> "SelectQuery", pos |-> pos, With |-> Nil, SelectItems |-> items,
     From |-> Nil, ArrayJoin |-> Nil, Where |-> Nil, GroupBy |-> Nil, Having |-> Nil,
     OrderBy |-> Nil, Limit |-> Nil, HasDistinct |-> FALSE,
     UnionAll |-> Nil, UnionDistinct |-> Nil, Except |-> Nil]

AssignmentValues(values) == [kind |-> "AssignmentValues", Values |-> values]

NestedIdentifierName(id) == [kind |-> "NestedIdentifier", Ident |-> id, DotIdent |-> Nil, pos |-> id.pos]

ColumnNamesExpr(cols) == [kind |-> "ColumnNamesExpr", ColumnNames |-> cols]

\* INSERT INTO table (cols) VALUES .. | SELECT .., the keyword at pos
InsertStmt(table, cols, values, sel, pos) ==
    [kind |-> "InsertStmt", Table |-> table, ColumnNames |-> cols, Values |-> values,
     SelectExpr |-> sel, pos |-> pos]

(* ------------------------------------------------------------------ *)
(* identifiers, literals and operators of the statements enumerated     *)
(* ------------------------------------------------------------------ *)

\* "Users"
N_Users == <<85, 115, 101, 114, 115>>
\* "Orders"
N_Orders == <<79, 114, 100, 101, 114, 115>>
\* "Id"
N_Id == <<73, 100>>
\* "Name"
N_Name == <<78, 97, 109, 101>>
\* "Total"
N_Total == <<84, 111, 116, 97, 108>>
\* "Tags"
N_Tags == <<84, 97, 103, 115>>
\* "Tag"
N_Tag == <<84, 97, 103>>
\* "Sub"
N_Sub == <<83, 117, 98>>
\* "Recent"
N_Recent == <<82, 101, 99, 101, 110, 116>>
\* "Shop"
N_Shop == <<83, 104, 111, 112>>
\* "SQLC_Arg"
N_SQLC_Arg == <<83, 81, 76, 67, 95, 65, 114, 103>>
\* "sqlc_narg"
N_sqlc_narg == <<115, 113, 108, 99, 95, 110, 97, 114, 103>>
\* "Sqlc_Slice"
N_Sqlc_Slice == <<83, 113, 108, 99, 95, 83, 108, 105, 99, 101>>
\* "sqlcx"
N_sqlcx == <<115, 113, 108, 99, 120>>
\* "Count"
N_Count == <<67, 111, 117, 110, 116>>
\* "toDate"
N_toDate == <<116, 111, 68, 97, 116, 101>>
\* "String"
N_String == <<83, 116, 114, 105, 110, 103>>
\* "UInt64"
N_UInt64 == <<85, 73, 110, 116, 54, 52>>
\* "MyType"
N_MyType == <<77, 121, 84, 121, 112, 101>>
\* "id"
N_id == <<105, 100>>
\* "status"
N_status == <<115, 116, 97, 116, 117, 115>>
\* "active"
N_active == <<97, 99, 116, 105, 118, 101>>
\* "7"
L_7 == <<55>>
\* "42"
L_42 == <<52, 50>>
\* "1.5"
L_1_5 == <<49, 46, 53>>
\* "Outer"
N_Outer == <<79, 117, 116, 101, 114>>
\* "="
Op_eq == <<61>>
\* "AND"
Op_AND == <<65, 78, 68>>
\* ">"
Op_gt == <<62>>
\* "-"
Op_minus == <<45>>
\* "NOT"
Op_NOT == <<78, 79, 84>>

(* ------------------------------------------------------------------ *)
(* the statements fed to the converter                                  *)
(*                                                                      *)
(* Each is the parse tree of the statement written above it. Offsets    *)
(* follow one layout, so that a clause that comes later in the text has *)
(* the larger offsets: from the first byte b of the statement,          *)
(*   WITH b, cte name b+5, cte query b+15 | SELECT b+40, items b+47 and *)
(*   b+60 | FROM b+80, tables b+85 and b+100 | ARRAY JOIN b+120, items  *)
(*   b+131 and b+150 | WHERE b+170, condition b+176 | GROUP BY b+200,   *)
(*   b+209 | HAVING b+220, b+227 | ORDER BY b+240, b+249 | LIMIT b+260, *)
(*   b+266 | OFFSET b+270, b+277 | UNION / EXCEPT b+290, operand b+300. *)
(* ------------------------------------------------------------------ *)

PosCteName(b) == b + 5
PosCteQuery(b) == b + 15
PosSelect(b) == b + 40
PosItem(b) == b + 47
PosItem2(b) == b + 60
PosTable(b) == b + 85
PosTable2(b) == b + 100
PosArrayJoin(b) == b + 131
PosArrayJoin2(b) == b + 150
PosWhere(b) == b + 176
PosGroupBy(b) == b + 209
PosHaving(b) == b + 227
PosOrderBy(b) == b + 249
PosLimit(b) == b + 266
PosOffset(b) == b + 277
PosOperand(b) == b + 300

\* SELECT Id  (inside parentheses, the keyword at p)
SubSelect(e, p) == SelectQuery(<<SelectItem(e, Nil)>>, p)

\* FROM Users
FromUsers(b) ==
    FromClause(TableExpr(TableIdentifier(Nil, Ident(N_Users, PosTable(b))), Nil))

\* SELECT Id FROM Users
Base(b) ==
    [SelectQuery(<<SelectItem(Ident(N_Id, PosItem(b)), Nil)>>, PosSelect(b))
        EXCEPT !.From = FromUsers(b)]

\* WITH Recent AS (SELECT e)
WithRecent(e, b) ==
    WithClause(<<CTEStmt(Ident(N_Recent, PosCteName(b)),
                         SubSelect(e, PosCteQuery(b)))>>, b)

\* Id = e, at p
IdEq(e, p) == BinaryOperation(Ident(N_Id, p), Op_eq, e)

\* WITH Recent AS (SELECT ?) SELECT ? FROM Users ARRAY JOIN {p} AS Tag WHERE ?
\* GROUP BY {p} HAVING ? ORDER BY {p} LIMIT ? OFFSET {p} UNION ALL SELECT Id
\* FROM Users WHERE {p}
StmtEveryClause ==
    [Base(0) EXCEPT
        !.With = WithRecent(PlaceHolder(PosCteQuery(0) + 7), 0),
        !.SelectItems = <<SelectItem(PlaceHolder(PosItem(0)), Nil)>>,
        !.ArrayJoin = ArrayJoinClause("",
            SelectItem(QueryParam(PosArrayJoin(0)), Ident(N_Tag, PosArrayJoin(0) + 7))),
        !.Where = WhereClause(PlaceHolder(PosWhere(0))),
        !.GroupBy = GroupByClause(QueryParam(PosGroupBy(0))),
        !.Having = HavingClause(PlaceHolder(PosHaving(0))),
        !.OrderBy = OrderByClause(<<OrderExpr(QueryParam(PosOrderBy(0)), "")>>),
        !.Limit = LimitClause(PlaceHolder(PosLimit(0)), QueryParam(PosOffset(0))),
        !.UnionAll = [Base(PosOperand(0)) EXCEPT
            !.Where = WhereClause(QueryParam(PosWhere(PosOperand(0))))]]

\* WITH Recent AS (SELECT ?) SELECT Id FROM Users WHERE Id = ?
StmtWithWhere ==
    [Base(0) EXCEPT
        !.With = WithRecent(PlaceHolder(PosCteQuery(0) + 7), 0),
        !.Where = WhereClause(IdEq(PlaceHolder(PosWhere(0) + 5), PosWhere(0)))]

\* SELECT Id FROM Users ARRAY JOIN ? AS Tag WHERE Id = ?
StmtArrayJoinWhere ==
    [Base(0) EXCEPT
        !.ArrayJoin = ArrayJoinClause("",
            SelectItem(PlaceHolder(PosArrayJoin(0)), Ident(N_Tag, PosArrayJoin(0) + 5))),
        !.Where = WhereClause(IdEq(PlaceHolder(PosWhere(0) + 5), PosWhere(0)))]

\* SELECT Id FROM Users LEFT ARRAY JOIN ? AS Tag, {p} AS Name
StmtArrayJoinList ==
    [Base(0) EXCEPT
        !.ArrayJoin = ArrayJoinClause("LEFT", ColumnExprList(<<
            SelectItem(PlaceHolder(PosArrayJoin(0)), Ident(N_Tag, PosArrayJoin(0) + 5)),
            SelectItem(QueryParam(PosArrayJoin2(0)), Ident(N_Name, PosArrayJoin2(0) + 7))>>))]

\* SELECT ? AS Total FROM Users WHERE Id = {p}
StmtItemWhere ==
    [Base(0) EXCEPT
        !.SelectItems = <<SelectItem(PlaceHolder(PosItem(0)), Ident(N_Total, PosItem(0) + 5))>>,
        !.Where = WhereClause(IdEq(QueryParam(PosWhere(0) + 5), PosWhere(0)))]

\* SELECT Id FROM Users WHERE Id = ? LIMIT ? OFFSET ?
StmtWhereLimit ==
    [Base(0) EXCEPT
        !.Where = WhereClause(IdEq(PlaceHolder(PosWhere(0) + 5), PosWhere(0))),
        !.Limit = LimitClause(PlaceHolder(PosLimit(0)), PlaceHolder(PosOffset(0)))]

\* SELECT Id FROM Users WHERE Id = ?
StmtWhere ==
    [Base(0) EXCEPT
        !.Where = WhereClause(IdEq(PlaceHolder(PosWhere(0) + 5), PosWhere(0)))]

\* SELECT DISTINCT Id FROM Shop.Users
StmtPlain ==
    [Base(0) EXCEPT
        !.HasDistinct = TRUE,
        !.From = FromClause(TableExpr(
            TableIdentifier(Ident(N_Shop, PosTable(0)), Ident(N_Users, PosTable(0) + 5)),
            Nil))]

\* the right-hand query of the composite selects: SELECT Name FROM Orders WHERE Id = {p}
RightQuery(b) ==
    [SelectQuery(<<SelectItem(Ident(N_Name, PosItem(b)), Nil)>>, PosSelect(b)) EXCEPT
        !.From = FromClause(TableExpr(TableIdentifier(Ident(N_Orders, PosTable(b)), Nil), Nil)),
        !.Where = WhereClause(IdEq(QueryParam(PosWhere(b) + 5), PosWhere(b)))]

\* SELECT Id FROM Users WHERE Id = ? UNION ALL SELECT Name FROM Orders WHERE Id = {p}
StmtUnionAll == [StmtWhere EXCEPT !.UnionAll = RightQuery(PosOperand(0))]

\* SELECT Id FROM Users WHERE Id = ? UNION DISTINCT SELECT Name FROM Orders WHERE Id = {p}
StmtUnionDistinct == [StmtWhere EXCEPT !.UnionDistinct = RightQuery(PosOperand(0))]

\* SELECT Id FROM Users WHERE Id = ? EXCEPT SELECT Name FROM Orders WHERE Id = {p}
StmtExcept == [StmtWhere EXCEPT !.Except = RightQuery(PosOperand(0))]

\* SELECT Id FROM Users UNION ALL SELECT Name FROM Orders WHERE Id = {p}
\* EXCEPT SELECT Id FROM Users
StmtUnionChain ==
    [Base(0) EXCEPT
        !.UnionAll = [RightQuery(PosOperand(0)) EXCEPT
            !.Except = Base(PosOperand(PosOperand(0)))]]

\* Name ? {p} : 7, at p: a ternary, which convert's switch has no case for
Ternary(p) ==
    TernaryOperation(Ident(N_Name, p), QueryParam(p + 7), NumberLiteral(L_7, p + 11))

\* [7, ?], at p: an array literal, which convert's switch has no case for
ArrayLiteral(p) ==
    ArrayParamList(<<NumberLiteral(L_7, p + 1), PlaceHolder(p + 4)>>, p)

\* SELECT Id FROM Users WHERE Id = ? AND u LIMIT {p}
UnsupportedWhereWith(u) ==
    [Base(0) EXCEPT
        !.Where = WhereClause(BinaryOperation(
            IdEq(PlaceHolder(PosWhere(0) + 5), PosWhere(0)), Op_AND, u)),
        !.Limit = LimitClause(QueryParam(PosLimit(0)), Nil)]

\* SELECT u, Name FROM Users WHERE Id = ?
UnsupportedItemWith(u) ==
    [Base(0) EXCEPT
        !.SelectItems = <<SelectItem(u, Nil),
                          SelectItem(Ident(N_Name, PosItem2(0)), Nil)>>,
        !.Where = WhereClause(IdEq(PlaceHolder(PosWhere(0) + 5), PosWhere(0)))]

\* where the unsupported expression of these two statements starts
PosWhereHole == PosWhere(0) + 12
PosItemHole == PosItem(0)

\* SELECT Id FROM Users WHERE Id = ? AND (Name ? {p} : 7) LIMIT {p}
StmtUnsupportedWhere == UnsupportedWhereWith(Ternary(PosWhereHole))

\* SELECT Id FROM Users WHERE Id = ? AND [7, ?] LIMIT {p}
StmtUnsupportedWhereArray == UnsupportedWhereWith(ArrayLiteral(PosWhereHole))

\* SELECT [7, ?], Name FROM Users WHERE Id = ?
StmtUnsupportedItem == UnsupportedItemWith(ArrayLiteral(PosItemHole))

\* SELECT (Name ? {p} : 7), Name FROM Users WHERE Id = ?
StmtUnsupportedItemTernary == UnsupportedItemWith(Ternary(PosItemHole))

\* SELECT Count(Id) AS Total, CAST(Name AS String) FROM Shop.Users
\* ORDER BY Users.Name DESC
StmtIdentifiers ==
    [Base(0) EXCEPT
        !.SelectItems = <<
            SelectItem(FunctionExpr(Ident(N_Count, PosItem(0)),
                                    <<ColumnExpr(Ident(N_Id, PosItem(0) + 6))>>),
                       Ident(N_Total, PosItem(0) + 12)),
            SelectItem(CastExpr(Ident(N_Name, PosItem2(0) + 5),
                                ScalarType(N_String, PosItem2(0) + 13),
                                PosItem2(0)), Nil)>>,
        !.From = FromClause(TableExpr(
            TableIdentifier(Ident(N_Shop, PosTable(0)), Ident(N_Users, PosTable(0) + 5)),
            Nil)),
        !.OrderBy = OrderByClause(<<
            OrderExpr(NestedIdentifier(Ident(N_Users, PosOrderBy(0)),
                                       Ident(N_Name, PosOrderBy(0) + 6)), "DESC")>>)]

\* SELECT Id FROM (SELECT Name) AS Sub
StmtSubquery ==
    [Base(0) EXCEPT
        !.From = FromClause(TableExpr(
            [RightQuery(PosTable(0) - PosSelect(0) + 1) EXCEPT
                !.From = Nil,
                !.Where = Nil],
            AliasExpr(Ident(N_Sub, PosTable(0) + 14))))]

\* WITH Recent AS (SELECT Id) SELECT Tag FROM Users ARRAY JOIN Tags AS Tag
StmtCteArrayJoin ==
    [Base(0) EXCEPT
        !.With = WithRecent(Ident(N_Id, PosCteQuery(0) + 7), 0),
        !.SelectItems = <<SelectItem(Ident(N_Tag, PosItem(0)), Nil)>>,
        !.ArrayJoin = ArrayJoinClause("",
            SelectItem(Ident(N_Tags, PosArrayJoin(0)), Ident(N_Tag, PosArrayJoin(0) + 8)))]

\* SELECT Id FROM Users LEFT JOIN Orders ON Users.Id = ?
StmtJoin ==
    [Base(0) EXCEPT
        !.From = FromClause(JoinExpr(
            TableExpr(TableIdentifier(Nil, Ident(N_Users, PosTable(0))), Nil),
            JoinTableExpr(TableExpr(TableIdentifier(Nil, Ident(N_Orders, PosTable2(0))), Nil)),
            <<S_LEFT>>,
            BinaryOperation(
                NestedIdentifier(Ident(N_Users, PosTable2(0) + 10),
                                 Ident(N_Id, PosTable2(0) + 16)),
                Op_eq,
                PlaceHolder(PosTable2(0) + 21))))]

\* SELECT CASE WHEN Id > 7 THEN 'active' ELSE ? END FROM Users
\* WHERE Name IS NOT NULL AND NOT (Id, {p}) IS NULL
StmtCase ==
    [Base(0) EXCEPT
        !.SelectItems = <<SelectItem(
            CaseExpr(Nil,
                     <<WhenClause(
                          BinaryOperation(Ident(N_Id, PosItem(0) + 10), Op_gt,
                                          NumberLiteral(L_7, PosItem(0) + 15)),
                          StringLiteral(N_active, PosItem(0) + 22))>>,
                     PlaceHolder(PosItem(0) + 36),
                     PosItem(0)), Nil)>>,
        !.Where = WhereClause(BinaryOperation(
            IsNotNullExpr(Ident(N_Name, PosWhere(0))),
            Op_AND,
            UnaryExpr(Op_NOT,
                IsNullExpr(ParamExprList(<<ColumnExpr(Ident(N_Id, PosWhere(0) + 26)),
                                           QueryParam(PosWhere(0) + 30)>>,
                                         PosWhere(0) + 25)),
                PosWhere(0) + 21)))]

\* SELECT Count(Id) OVER (PARTITION BY ? ORDER BY {p}) FROM Users WHERE Total > 1.5
StmtWindow ==
    [Base(0) EXCEPT
        !.SelectItems = <<SelectItem(
            WindowFunctionExpr(
                FunctionExpr(Ident(N_Count, PosItem(0)),
                             <<ColumnExpr(Ident(N_Id, PosItem(0) + 6))>>),
                WindowExpr(PartitionByClause(PlaceHolder(PosItem(0) + 29)),
                           OrderByClause(<<OrderExpr(QueryParam(PosItem(0) + 40), "ASC")>>),
                           PosItem(0) + 15)), Nil)>>,
        !.Where = WhereClause(BinaryOperation(Ident(N_Total, PosWhere(0)), Op_gt,
                                              NumberLiteral(L_1_5, PosWhere(0) + 8)))]

\* name('id') at p, the annotation form that preprocessing leaves for sqlc.name('id')
AnnotationCall(name, arg, p) ==
    FunctionExpr(Ident(name, p), <<StringLiteral(arg, p + Len(name) + 1)>>)

\* SELECT Id FROM Users WHERE Id = SQLC_Arg('id') AND Name = SQLC_Arg('id')
StmtArgTwice ==
    [Base(0) EXCEPT
        !.Where = WhereClause(BinaryOperation(
            IdEq(AnnotationCall(N_SQLC_Arg, N_id, PosWhere(0) + 5), PosWhere(0)),
            Op_AND,
            BinaryOperation(Ident(N_Name, PosWhere(0) + 24), Op_eq,
                            AnnotationCall(N_SQLC_Arg, N_id, PosWhere(0) + 31))))]

\* SELECT Id FROM Users WHERE Id = SQLC_Arg('id') AND Name = ?
\* HAVING Total = sqlc_arg('id') LIMIT {p}
StmtArgTwiceMarkers ==
    [Base(0) EXCEPT
        !.Where = WhereClause(BinaryOperation(
            IdEq(AnnotationCall(N_SQLC_Arg, N_id, PosWhere(0) + 5), PosWhere(0)),
            Op_AND,
            BinaryOperation(Ident(N_Name, PosWhere(0) + 24), Op_eq,
                            PlaceHolder(PosWhere(0) + 31)))),
        !.Having = HavingClause(BinaryOperation(
            Ident(N_Total, PosHaving(0)), Op_eq,
            AnnotationCall(ToLower(N_SQLC_Arg), N_id, PosHaving(0) + 8))),
        !.Limit = LimitClause(QueryParam(PosLimit(0)), Nil)]

\* SELECT Id FROM Users WHERE Id = ? AND Name = sqlc_narg('status') LIMIT {p}
StmtNargBetween ==
    [Base(0) EXCEPT
        !.Where = WhereClause(BinaryOperation(
            IdEq(PlaceHolder(PosWhere(0) + 5), PosWhere(0)),
            Op_AND,
            BinaryOperation(Ident(N_Name, PosWhere(0) + 11), Op_eq,
                            AnnotationCall(N_sqlc_narg, N_status, PosWhere(0) + 18)))),
        !.Limit = LimitClause(QueryParam(PosLimit(0)), Nil)]

\* SELECT sqlcx(Id), toDate(Name) FROM Users WHERE Id = Sqlc_Slice('id')
StmtSlice ==
    [Base(0) EXCEPT
        !.SelectItems = <<
            SelectItem(FunctionExpr(Ident(N_sqlcx, PosItem(0)),
                                    <<ColumnExpr(Ident(N_Id, PosItem(0) + 6))>>), Nil),
            SelectItem(FunctionExpr(Ident(N_toDate, PosItem2(0)),
                                    <<ColumnExpr(Ident(N_Name, PosItem2(0) + 7))>>), Nil)>>,
        !.Where = WhereClause(
            IdEq(AnnotationCall(N_Sqlc_Slice, N_id, PosWhere(0) + 5), PosWhere(0)))]

\* INSERT INTO Users (Id, Name) VALUES (?, {p}), (?, 'active')
StmtInsertValues ==
    InsertStmt(TableIdentifier(Nil, Ident(N_Users, 12)),
               ColumnNamesExpr(<<NestedIdentifierName(Ident(N_Id, 19)),
                                 NestedIdentifierName(Ident(N_Name, 23))>>),
               <<AssignmentValues(<<PlaceHolder(37), QueryParam(40)>>),
                 AssignmentValues(<<PlaceHolder(47), StringLiteral(N_active, 50)>>)>>,
               Nil, 0)

\* INSERT INTO Shop.Orders SELECT Name FROM Orders WHERE Id = {p}
StmtInsertSelect ==
    InsertStmt(TableIdentifier(Ident(N_Shop, 12), Ident(N_Orders, 17)),
               Nil, <<>>, RightQuery(0), 0)

\* the statements a source file is made of
Statements ==
    {StmtEveryClause, StmtWithWhere, StmtArrayJoinWhere, StmtArrayJoinList,
     StmtItemWhere, StmtWhereLimit, StmtWhere, StmtPlain,
     StmtUnionAll, StmtUnionDistinct, StmtExcept, StmtUnionChain,
     StmtUnsupportedWhere, StmtUnsupportedWhereArray,
     StmtUnsupportedItem, StmtUnsupportedItemTernary,
     StmtIdentifiers, StmtSubquery, StmtCteArrayJoin, StmtJoin, StmtCase, StmtWindow,
     StmtArgTwice, StmtArgTwiceMarkers, StmtNargBetween, StmtSlice,
     StmtInsertValues, StmtInsertSelect}

(* ------------------------------------------------------------------ *)
(* the parse loop (parse.go, as QUERY_PROCESSING_FLOW.md gives it)      *)
(* ------------------------------------------------------------------ *)

VARIABLES
    stmtNodes,    \* the parser's statements converted so far, in source order
    stmts,        \* the RawStmt records appended so far
    converter,    \* the converter of the latest loop iteration, after its convert
    originalSQL,  \* the text of the query as read
    processedSQL, \* the text handed to the parser
    edits,        \* the edits of the named-parameter rewrite
    namedParams,  \* the named parameters it found
    finalText,    \* the text embedded in the generated code
    stage,        \* how far the query, or the run, has come
    compiler,     \* the compiler of the run: its parser and its catalog
    result        \* the Query records and the errors of the run

vars == <<stmtNodes, stmts, converter,
          originalSQL, processedSQL, edits, namedParams, finalText, stage,
          compiler, result>>

queryVars == <<originalSQL, processedSQL, edits, namedParams, finalText, stage>>

compileVars == <<compiler, result>>

\* what a run has to show before it compiles anything
NoResult == [Queries |-> <<>>, Errs |-> <<>>]

\* no compiler made
NoCompiler ==
    /\ compiler = Nil
    /\ result = NoResult

\* converter := &cc{}, inside the loop body: prev is the converter of the
\* iteration before, which the new one does not look at
LoopConverter(prev) == NewCC

\* &ast.RawStmt{Stmt: out}
RawStmt(out) == [kind |-> "RawStmt", Stmt |-> out]

\* no statement converted yet
NoneConverted ==
    /\ stmtNodes = <<>>
    /\ stmts = <<>>
    /\ converter = NewCC

\* no query text in hand: the parser's statements are all there is
Init ==
    /\ NoneConverted
    /\ originalSQL = <<>>
    /\ processedSQL = <<>>
    /\ edits = <<>>
    /\ namedParams = <<>>
    /\ finalText = <<>>
    /\ stage = "statements"
    /\ NoCompiler

\* one iteration of `for i := range stmtNodes`, for the next statement s
ParseStmt(s) ==
    /\ Len(stmts) < MaxStmts
    /\ LET out == convert(s, LoopConverter(converter))
       IN  /\ stmts' = Append(stmts, RawStmt(out.node))
           /\ converter' = out.c
    /\ stmtNodes' = Append(stmtNodes, s)

Next == \E s \in Statements : ParseStmt(s) /\ UNCHANGED queryVars /\ UNCHANGED compileVars

Spec == Init /\ [][Next]_vars

(* ------------------------------------------------------------------ *)
(* reading the trees                                                    *)
(* ------------------------------------------------------------------ *)

RECURSIVE ConcatAll(_)
ConcatAll(seqs) ==
    IF seqs = <<>> THEN <<>> ELSE Head(seqs) \o ConcatAll(Tail(seqs))

\* the nodes an ast node points to. A String under an A_Const is a literal's
\* value and one under A_Expr.Name an operator; the Larg of a composite
\* select is a pointer back to a node already listed.
Kids(n) ==
    CASE n.kind = "SelectStmt" ->
            <<n.TargetList, n.FromClause, n.WhereClause, n.GroupClause, n.HavingClause,
              n.SortClause, n.WithClause, n.DistinctClause, n.LimitCount, n.LimitOffset,
              n.ValuesLists, n.Larg, n.Rarg>>
      [] n.kind = "InsertStmt" -> <<n.Relation, n.Cols, n.SelectStmt, n.ReturningList>>
      [] n.kind = "List" -> n.Items
      [] n.kind = "ResTarget" -> <<n.Val>>
      [] n.kind = "RangeSubselect" -> <<n.Subquery>>
      [] n.kind = "RangeFunction" -> <<n.Functions>>
      [] n.kind = "JoinExpr" -> <<n.Larg, n.Rarg, n.Quals>>
      [] n.kind = "WithClause" -> <<n.Ctes>>
      [] n.kind = "CommonTableExpr" -> <<n.Ctequery>>
      [] n.kind = "FuncCall" -> <<n.Args, n.Over>>
      [] n.kind = "A_Expr" -> <<n.Lexpr, n.Rexpr>>
      [] n.kind = "A_Const" -> IF n.Val.kind = "List" THEN <<n.Val>> ELSE <<>>
      [] n.kind = "SortBy" -> <<n.Node>>
      [] n.kind = "TypeCast" -> <<n.Arg>>
      [] n.kind = "CaseExpr" -> <<n.Arg, n.Args, n.Defresult>>
      [] n.kind = "WindowDef" -> <<n.PartitionClause, n.OrderClause>>
      [] n.kind = "NullTest" -> <<n.Arg>>
      [] n.kind = "CreateTableStmt" -> n.Cols
      [] OTHER -> <<>>

\* every node of the tree under n, n first
RECURSIVE NodeSeq(_)
NodeSeq(n) ==
    <<n>> \o ConcatAll([k \in 1..Len(Kids(n)) |-> NodeSeq(Kids(n)[k])])

OfKind(nodes, kind) == SelectSeq(nodes, LAMBDA x : x.kind = kind)

\* the parameter references of a converted statement
ParamRefs(stmt) == OfKind(NodeSeq(stmt), "ParamRef")

\* the nodes a chparser node holds
ChKids(d) ==
    CASE d.kind = "SelectQuery" ->
            <<d.With>> \o d.SelectItems \o
            <<d.From, d.ArrayJoin, d.Where, d.GroupBy, d.Having, d.OrderBy, d.Limit,
              d.UnionAll, d.UnionDistinct, d.Except>>
      [] d.kind = "InsertStmt" ->
            <<d.Table, d.ColumnNames>> \o d.Values \o <<d.SelectExpr>>
      [] d.kind = "WithClause" -> d.CTEs
      [] d.kind = "CTEStmt" -> <<d.Expr, d.Alias>>
      [] d.kind = "SelectItem" -> <<d.Expr, d.Alias>>
      [] d.kind \in {"FromClause", "WhereClause", "GroupByClause", "HavingClause",
                     "PartitionByClause", "ArrayJoinClause", "ColumnExpr", "IsNullExpr",
                     "IsNotNullExpr", "UnaryExpr", "OrderExpr"} -> <<d.Expr>>
      [] d.kind = "LimitClause" -> <<d.Limit, d.Offset>>
      [] d.kind \in {"OrderByClause", "ColumnExprList", "ArrayParamList"} -> d.Items
      [] d.kind = "ParamExprList" -> <<d.Items>>
      [] d.kind = "FunctionExpr" -> <<d.Name, d.Params>>
      [] d.kind = "BinaryOperation" -> <<d.LeftExpr, d.RightExpr>>
      [] d.kind = "NestedIdentifier" -> <<d.Ident, d.DotIdent>>
      [] d.kind = "CastExpr" -> <<d.Expr, d.AsType>>
      [] d.kind = "CaseExpr" -> <<d.Expr>> \o d.Whens \o <<d.Else>>
      [] d.kind = "WhenClause" -> <<d.When, d.Then>>
      [] d.kind = "WindowFunctionExpr" -> <<d.Function, d.OverExpr>>
      [] d.kind = "WindowExpr" -> <<d.PartitionBy, d.OrderBy>>
      [] d.kind = "TableExpr" -> <<d.Expr, d.Alias>>
      [] d.kind = "AliasExpr" -> <<d.Alias>>
      [] d.kind = "TableIdentifier" -> <<d.Database, d.Table>>
      [] d.kind = "JoinTableExpr" -> <<d.Table>>
      [] d.kind = "JoinExpr" -> <<d.Left, d.Right, d.Constraints>>
      [] d.kind = "TernaryOperation" -> <<d.Condition, d.TrueExpr, d.FalseExpr>>
      [] d.kind = "AssignmentValues" -> d.Values
      [] d.kind = "ColumnNamesExpr" -> d.ColumnNames
      [] OTHER -> <<>>

\* every node of the parse tree under d, d first
RECURSIVE ChNodeSeq(_)
ChNodeSeq(d) ==
    <<d>> \o ConcatAll([k \in 1..Len(ChKids(d)) |-> ChNodeSeq(ChKids(d)[k])])

Range(seq) == {seq[k] : k \in 1..Len(seq)}

\* the statements converted so far
Converted == 1..Len(stmts)

(* ------------------------------------------------------------------ *)
(* parameter markers                                                    *)
(* ------------------------------------------------------------------ *)

\* C1: within one statement, a marker at a smaller source offset gets the
\* smaller Number, whichever clauses the two markers are in.
NumbersFollowSourceOrder ==
    \A i \in Converted :
        LET refs == ParamRefs(stmts[i].Stmt)
        IN  \A j, k \in 1..Len(refs) :
                refs[j].Location < refs[k].Location => refs[j].Number < refs[k].Number

\* C2: the Numbers of a statement's parameter references are exactly 1..n, n
\* the number of markers converted, none used twice and none skipped, and
\* Dollar is false on each.
NumbersAreOneToN ==
    /\ \A i \in Converted :
           LET refs == ParamRefs(stmts[i].Stmt)
           IN  /\ {refs[j].Number : j \in 1..Len(refs)} = 1..Len(refs)
               /\ \A j, k \in 1..Len(refs) : refs[j].Number = refs[k].Number => j = k
               /\ \A j \in 1..Len(refs) : refs[j].Dollar = FALSE
    /\ Len(stmts) > 0 =>
           Len(ParamRefs(stmts[Len(stmts)].Stmt)) = converter.paramCount

\* a statement with both kinds of marker, ten of them, has been converted
SeenManyMarkers ==
    \E i \in Converted :
        /\ stmtNodes[i] = StmtEveryClause
        /\ Len(ParamRefs(stmts[i].Stmt)) = 10
        /\ converter.paramCount > 0

\* C3: the first marker of every statement of the file gets Number 1, however
\* many markers the statements before it had.
FirstMarkerIsOne ==
    \A i \in Converted :
        LET refs == ParamRefs(stmts[i].Stmt)
        IN  \A j \in 1..Len(refs) :
                (\A k \in 1..Len(refs) : refs[j].Location <= refs[k].Location)
                    => refs[j].Number = 1

(* ------------------------------------------------------------------ *)
(* node kinds without a case                                            *)
(* ------------------------------------------------------------------ *)

\* the chparser types convert's switch has a case for
SwitchKinds ==
    {"SelectQuery", "InsertStmt", "AlterTable", "CreateTable", "CreateDatabase",
     "DropStmt", "OptimizeStmt", "DescribeStmt", "ExplainStmt", "ShowStmt",
     "TruncateTable", "Ident", "ColumnExpr", "FunctionExpr", "BinaryOperation",
     "NumberLiteral", "StringLiteral", "QueryParam", "NestedIdentifier", "OrderExpr",
     "PlaceHolder", "JoinTableExpr", "CastExpr", "CaseExpr", "WindowFunctionExpr",
     "IsNullExpr", "IsNotNullExpr", "UnaryExpr", "MapLiteral", "ParamExprList"}

\* the converters a statement's nodes can meet: no statement has more than
\* ten markers
Counters == {[paramCount |-> n] : n \in 0..10}

\* an expression of a kind without a case, at p, and nothing in it
EmptyUnsupported(p) == [kind |-> "IndexOperation", pos |-> p]

\* C4: a node of a kind the converter has no case for converts to ast.TODO and
\* leaves the converter as it was; the statement around it is converted as it
\* is with nothing in the node's place but the TODO.
UnsupportedBecomesTodo ==
    \A i \in Converted :
        /\ \A d \in Range(ChNodeSeq(stmtNodes[i])) :
               (~IsNil(d) /\ d.kind \notin SwitchKinds)
                   => \A c \in Counters : convert(d, c) = Ret(TODO, c)
        /\ \A u \in {Ternary(PosWhereHole), ArrayLiteral(PosWhereHole)} :
               stmtNodes[i] = UnsupportedWhereWith(u) =>
                   /\ stmts[i].Stmt.WhereClause.Rexpr = TODO
                   /\ stmts[i].Stmt =
                          convert(UnsupportedWhereWith(EmptyUnsupported(PosWhereHole)),
                                  NewCC).node
        /\ \A u \in {Ternary(PosItemHole), ArrayLiteral(PosItemHole)} :
               stmtNodes[i] = UnsupportedItemWith(u) =>
                   /\ stmts[i].Stmt.TargetList.Items[1].Val = TODO
                   /\ stmts[i].Stmt =
                          convert(UnsupportedItemWith(EmptyUnsupported(PosItemHole)),
                                  NewCC).node

\* a statement with a ternary in its WHERE has been converted: the ternary is
\* a TODO, the marker before it has Number 1 and the one after it Number 2
SeenUnsupported ==
    \E i \in Converted :
        /\ stmtNodes[i] = StmtUnsupportedWhere
        /\ stmts[i].Stmt.kind = "SelectStmt"
        /\ stmts[i].Stmt.WhereClause.Rexpr = TODO
        /\ stmts[i].Stmt.WhereClause.Lexpr.Rexpr.Number = 1
        /\ stmts[i].Stmt.LimitCount.Number = 2

(* ------------------------------------------------------------------ *)
(* UNION and EXCEPT                                                     *)
(* ------------------------------------------------------------------ *)

SelectStmts(root) == OfKind(NodeSeq(root), "SelectStmt")

\* the ast.SelectStmt a pointer of the tree under root points to
Deref(root, ptr) ==
    LET all == SelectStmts(root)
    IN  all[CHOOSE k \in 1..Len(all) : all[k].addr = ptr.addr]

\* the SelectQuery the node at addr was allocated for
QueryAt(d, addr) ==
    LET all == OfKind(ChNodeSeq(d), "SelectQuery")
    IN  all[CHOOSE k \in 1..Len(all) : all[k].pos = addr]

\* C5: a select with UNION ALL, UNION DISTINCT or EXCEPT converts to a select
\* node with Op union or except, All set for UNION ALL and clear for UNION
\* DISTINCT, Rarg the converted right-hand query, and Larg a node of its own,
\* with Op none, that holds the clauses of the left-hand query.
CompositeSelectShape ==
    \A i \in Converted :
        LET all == SelectStmts(stmts[i].Stmt)
        IN  \A k \in 1..Len(all) :
                LET n == all[k]
                    q == QueryAt(stmtNodes[i], n.addr)
                    union == ~IsNil(q.UnionAll) \/ ~IsNil(q.UnionDistinct)
                    right == IF ~IsNil(q.UnionAll) THEN q.UnionAll
                             ELSE IF ~IsNil(q.UnionDistinct) THEN q.UnionDistinct
                             ELSE q.Except
                IN  (stmtNodes[i].kind = "SelectQuery" /\ (union \/ ~IsNil(q.Except))) =>
                        /\ n.Op = IF union THEN "Union" ELSE "Except"
                        /\ union => (n.All <=> ~IsNil(q.UnionAll))
                        /\ n.Rarg.kind = "SelectStmt" /\ n.Rarg.addr = right.pos
                        /\ n.Larg.kind = "Ptr"
                        /\ n.Larg.addr # n.addr
                        /\ Deref(stmts[i].Stmt, n.Larg).Op = "None"
                        /\ Deref(stmts[i].Stmt, n.Larg).TargetList = n.TargetList
                        /\ Deref(stmts[i].Stmt, n.Larg).WhereClause = n.WhereClause

(* ------------------------------------------------------------------ *)
(* identifiers                                                          *)
(* ------------------------------------------------------------------ *)

PtrVal(p) == IF IsNil(p) THEN <<>> ELSE <<p.val>>

AliasVal(a) == IF IsNil(a) THEN <<>> ELSE PtrVal(a.Aliasname)

\* the identifiers an ast node carries itself
IdentsAt(n) ==
    CASE n.kind = "RangeVar" -> PtrVal(n.Schemaname) \o PtrVal(n.Relname)
      [] n.kind = "ResTarget" -> PtrVal(n.Name)
      [] n.kind \in {"RangeSubselect", "RangeFunction"} -> AliasVal(n.Alias)
      [] n.kind = "CommonTableExpr" -> PtrVal(n.Ctename)
      [] n.kind = "FuncCall" ->
            <<n.Func.Schema, n.Func.Name>> \o
            (IF IsNil(n.Funcname) THEN <<>>
             ELSE [k \in 1..Len(n.Funcname.Items) |-> n.Funcname.Items[k].Str])
      [] n.kind = "ColumnRef" -> [k \in 1..Len(n.Fields.Items) |-> n.Fields.Items[k].Str]
      [] n.kind = "String" -> <<n.Str>>
      [] OTHER -> <<>>

\* every identifier of the tree under root
Identifiers(root) ==
    LET all == NodeSeq(root)
    IN  Range(ConcatAll([k \in 1..Len(all) |-> IdentsAt(all[k])]))

\* C6: every identifier of the converted tree is lower-cased: tables, schemas,
\* columns, functions, and the aliases of select items and subqueries, CTE
\* names and array-join aliases.
IdentifiersLowerCased ==
    \A i \in Converted :
        \A id \in Identifiers(stmts[i].Stmt) : id = ToLower(id)

(* ------------------------------------------------------------------ *)
(* function calls                                                       *)
(* ------------------------------------------------------------------ *)

\* the arguments of a parsed call
CallArgs(d) ==
    IF ~IsNil(d.Params) /\ ~IsNil(d.Params.Items) THEN d.Params.Items.Items ELSE <<>>

\* the ast.FuncCall nodes of a converted statement that stand for the call d
CallsFor(root, d) ==
    SelectSeq(OfKind(NodeSeq(root), "FuncCall"),
              LAMBDA f : ~IsNil(f.Funcname) /\ f.Location = d.pos)

\* C7: a call of a function whose lower-cased name begins with sqlc_ converts
\* to a function call with Schema sqlc, Name the rest of the lower-cased name,
\* the arguments converted in order and the Location of the call; a call of
\* any other function has an empty Schema and its lower-cased name.
SqlcCallsGetSchema ==
    \A i \in Converted :
        LET calls == OfKind(ChNodeSeq(stmtNodes[i]), "FunctionExpr")
        IN  \A k \in 1..Len(calls) :
                LET d == calls[k]
                    lower == ToLower(d.Name.Name)
                    fs == CallsFor(stmts[i].Stmt, d)
                IN  /\ Len(fs) = 1
                    /\ fs[1].Location = d.pos
                    /\ Len(fs[1].Args.Items) = Len(CallArgs(d))
                    /\ \E c \in Counters : fs[1].Args = convertAll(CallArgs(d), c).node
                    /\ IF Len(lower) >= 5 /\ SubSeq(lower, 1, 5) = S_sqlc_us
                       THEN /\ fs[1].Func.Schema = S_sqlc
                            /\ fs[1].Func.Name = SubSeq(lower, 6, Len(lower))
                       ELSE /\ fs[1].Func.Schema = <<>>
                            /\ fs[1].Func.Name = lower

\* Sqlc_Slice('id'), sqlcx(Id) and toDate(Name) have been converted: the
\* first to sqlc.slice, the others to a name of their own
SeenBothCalls ==
    \E i \in Converted :
        /\ stmtNodes[i] = StmtSlice
        /\ stmts[i].Stmt.WhereClause.Rexpr.kind = "FuncCall"
        /\ stmts[i].Stmt.WhereClause.Rexpr.Func.Schema = S_sqlc
        /\ Len(stmts[i].Stmt.WhereClause.Rexpr.Func.Name) = 5
        /\ stmts[i].Stmt.TargetList.Items[1].Val.Func.Schema = <<>>
        /\ stmts[i].Stmt.TargetList.Items[1].Val.Func.Name = N_sqlcx

(* ------------------------------------------------------------------ *)
(* locations                                                            *)
(* ------------------------------------------------------------------ *)

\* the operands a parsed node has: where a bare identifier is an expression
\* rather than the name of a table, a function, an alias or a type
Operands(d) ==
    CASE d.kind \in {"ColumnExpr", "SelectItem", "OrderExpr", "IsNullExpr",
                     "IsNotNullExpr", "UnaryExpr", "WhereClause", "GroupByClause",
                     "HavingClause", "PartitionByClause"} -> <<d.Expr>>
      [] d.kind = "BinaryOperation" -> <<d.LeftExpr, d.RightExpr>>
      [] d.kind \in {"ColumnExprList", "OrderByClause"} -> d.Items
      [] d.kind = "CastExpr" -> <<d.Expr>>
      [] d.kind = "WhenClause" -> <<d.When, d.Then>>
      [] d.kind = "CaseExpr" -> <<d.Expr, d.Else>>
      [] d.kind = "AssignmentValues" -> d.Values
      [] OTHER -> <<>>

\* the bare identifiers of a parsed statement
BareIdents(stmt) ==
    LET all == ChNodeSeq(stmt)
    IN  OfKind(ConcatAll([k \in 1..Len(all) |-> Operands(all[k])]), "Ident")

\* the parsed nodes of a statement whose ast node is to carry their position
Located(stmt) ==
    SelectSeq(ChNodeSeq(stmt),
              LAMBDA d : d.kind \in {"StringLiteral", "NumberLiteral", "FunctionExpr",
                                     "CastExpr", "CaseExpr", "CTEStmt", "JoinExpr",
                                     "OrderExpr"})
    \o BareIdents(stmt)

\* what the converter makes of a parsed node
Converts(d, c) ==
    CASE d.kind = "CTEStmt" -> convertCTE(d, c)
      [] d.kind = "JoinExpr" -> convertJoinExpr(d, c)
      [] OTHER -> convert(d, c)

HasLocation(n, pos) ==
    /\ "Location" \in DOMAIN n
    /\ n.Location = pos

\* C8: the ast node made from a parsed node carries the parsed node's Pos() as
\* its Location: string and number literals, bare identifiers, function
\* calls, casts, CASE expressions, CTEs, joins and sort items alike.
LocationIsPos ==
    \A i \in Converted :
        LET ds == Located(stmtNodes[i])
            out == NodeSeq(stmts[i].Stmt)
        IN  \A k \in 1..Len(ds) : \A c \in Counters :
                LET n == Converts(ds[k], c).node
                IN  (\E m \in 1..Len(out) : out[m] = n) => HasLocation(n, ds[k].pos)

(* ------------------------------------------------------------------ *)
(* the catalog (catalog.go) and what the schema statements do to it     *)
(* ------------------------------------------------------------------ *)

\* "default"
S_default == <<100, 101, 102, 97, 117, 108, 116>>

\* a catalog made without its default schema
NewCatalogBare == [DefaultSchema |-> S_default, Schemas |-> <<>>, Extensions |-> {}]

\* &catalog.Schema{Name: name, Tables: make([]*catalog.Table, 0)}
newDefaultSchema(name) == [Name |-> name, Tables |-> <<>>]

NewCatalog ==
    [DefaultSchema |-> S_default,
     Schemas |-> <<newDefaultSchema(S_default)>>,
     Extensions |-> {}]

\* the value of a *string, "" for nil
StrOf(p) == IF IsNil(p) THEN <<>> ELSE p.val

\* what a lookup gives when the catalog has no such table
NotFound == [kind |-> "NotFound"]

\* the place of the schema called name among the catalog's, 0 for none
SchemaIndex(cat, name) ==
    IF \E i \in 1..Len(cat.Schemas) : cat.Schemas[i].Name = name
    THEN CHOOSE i \in 1..Len(cat.Schemas) : cat.Schemas[i].Name = name
    ELSE 0

\* the place of the table called name among the schema's, 0 for none
TableIndex(schema, name) ==
    IF \E i \in 1..Len(schema.Tables) : schema.Tables[i].Name = name
    THEN CHOOSE i \in 1..Len(schema.Tables) : schema.Tables[i].Name = name
    ELSE 0

\* the schema a name stands for: the default schema for an omitted one
SchemaOrDefault(cat, schema) ==
    IF schema = <<>> THEN cat.DefaultSchema ELSE identifier(schema)

\* addSchema(name): a schema the catalog has is left as it is
addSchema(cat, name) ==
    IF SchemaIndex(cat, name) # 0
    THEN [catalog |-> cat, err |-> <<>>]
    ELSE [catalog |-> [cat EXCEPT !.Schemas = Append(@, [Name |-> name, Tables |-> <<>>])],
          err |-> <<>>]

\* addTable(schema, name, columns): into the default schema when schema is
\* omitted; a schema the catalog lacks is an error, a table it has stays
addTable(cat, schema, name, columns) ==
    LET si == SchemaIndex(cat, SchemaOrDefault(cat, schema))
    IN  IF si = 0
        THEN [catalog |-> cat, err |-> <<"CatalogLookupError">>]
        ELSE IF TableIndex(cat.Schemas[si], name) # 0
        THEN [catalog |-> cat, err |-> <<>>]
        ELSE [catalog |->
                 [cat EXCEPT !.Schemas[si].Tables =
                     Append(@, [kind |-> "Table", Name |-> name, Columns |-> columns])],
              err |-> <<>>]

\* lookupTable(schema?, name): the names folded to lower case, the default
\* schema for an omitted one
lookupTable(cat, schema, name) ==
    LET si == SchemaIndex(cat, SchemaOrDefault(cat, schema))
        ti == IF si = 0 THEN 0 ELSE TableIndex(cat.Schemas[si], identifier(name))
    IN  IF ti = 0 THEN NotFound ELSE cat.Schemas[si].Tables[ti]

\* Column{name, type, nullable} of a converted column definition
CatalogColumn(def) ==
    [Name |-> def.Colname,
     Type |-> IF IsNil(def.TypeName) THEN <<>> ELSE def.TypeName.Name,
     NotNull |-> def.IsNotNull]

\* the catalog's update for one converted schema statement: a CREATE
\* DATABASE adds a schema, a CREATE TABLE a table; no other node is acted on
Update(cat, stmt) ==
    CASE stmt.kind = "CreateSchemaStmt" -> addSchema(cat, StrOf(stmt.Name))
      [] stmt.kind = "CreateTableStmt" ->
            addTable(cat, stmt.Name.Schema, stmt.Name.Name,
                     [k \in 1..Len(stmt.Cols) |-> CatalogColumn(stmt.Cols[k])])
      [] OTHER -> [catalog |-> cat, err |-> <<>>]

\* every table of the catalog, as <<schema, table>> names
CatalogTables(cat) ==
    UNION {{<<cat.Schemas[i].Name, cat.Schemas[i].Tables[j].Name>> :
                j \in 1..Len(cat.Schemas[i].Tables)} :
           i \in 1..Len(cat.Schemas)}

(* ------------------------------------------------------------------ *)
(* schema and maintenance statements, as the parser hands them over     *)
(* ------------------------------------------------------------------ *)

\* "users"
N_users == <<117, 115, 101, 114, 115>>
\* "USERS"
N_USERS == <<85, 83, 69, 82, 83>>
\* "Email"
N_Email == <<69, 109, 97, 105, 108>>

\* name type [NOT NULL]
ColumnDef(name, type, notNull) ==
    [kind |-> "ColumnDef", Name |-> NestedIdentifierName(name), Type |-> type,
     NotNull |-> IF notNull THEN [kind |-> "NotNullLiteral"] ELSE Nil,
     pos |-> name.pos]

\* CREATE TABLE [IF NOT EXISTS] name (columns), the keyword at pos
CreateTable(name, ifNotExists, columns, pos) ==
    [kind |-> "CreateTable", Name |-> name, IfNotExists |-> ifNotExists,
     TableSchema |-> [kind |-> "TableSchemaClause", Columns |-> columns], pos |-> pos]

\* CREATE DATABASE [IF NOT EXISTS] name, the keyword at pos
CreateDatabase(name, ifNotExists, pos) ==
    [kind |-> "CreateDatabase", Name |-> name, IfNotExists |-> ifNotExists, pos |-> pos]

\* DROP TABLE name; convert.go reads none of its fields
DropStmt(name, pos) == [kind |-> "DropStmt", Name |-> name, pos |-> pos]

\* ALTER TABLE name ..; convert.go reads none of its fields
AlterTable(name, pos) == [kind |-> "AlterTable", TableIdentifier |-> name, pos |-> pos]

\* OPTIMIZE TABLE, DESCRIBE, EXPLAIN, SHOW, TRUNCATE TABLE: a statement of
\* one of the kinds convert.go answers without reading it
Maintenance(kind, pos) == [kind |-> kind, pos |-> pos]

MaintenanceKinds ==
    {"OptimizeStmt", "DescribeStmt", "ExplainStmt", "ShowStmt", "TruncateTable"}

\* (Id UInt64 NOT NULL, Name String, Email String)
UserColumns(p) ==
    <<ColumnDef(Ident(N_Id, p), ScalarType(N_UInt64, p + 3), TRUE),
      ColumnDef(Ident(N_Name, p + 20), ScalarType(N_String, p + 25), FALSE),
      ColumnDef(Ident(N_Email, p + 33), ScalarType(N_String, p + 39), FALSE)>>

\* CREATE DATABASE Shop
DdlCreateShop == CreateDatabase(Ident(N_Shop, 16), FALSE, 0)

\* CREATE TABLE Users (..), the name in Table
DdlCreateUsers ==
    CreateTable(TableIdentifier(Nil, Ident(N_Users, 13)), FALSE, UserColumns(20), 0)

\* CREATE TABLE Users (..), the name in Database, where convertCreateTable's
\* comment says the parser puts a bare name
DdlCreateUsersInDatabase ==
    CreateTable(TableIdentifier(Ident(N_Users, 13), Nil), FALSE, UserColumns(20), 0)

\* CREATE TABLE IF NOT EXISTS Shop.Orders (..)
DdlCreateShopOrders ==
    CreateTable(TableIdentifier(Ident(N_Shop, 27), Ident(N_Orders, 32)), TRUE,
                <<ColumnDef(Ident(N_Id, 40), ScalarType(N_UInt64, 43), TRUE),
                  ColumnDef(Ident(N_Total, 60), ScalarType(N_UInt64, 66), FALSE)>>, 0)

\* DROP TABLE Users
DdlDropUsers == DropStmt(TableIdentifier(Nil, Ident(N_Users, 11)), 0)

\* ALTER TABLE Users ADD COLUMN ..
DdlAlterUsers == AlterTable(TableIdentifier(Nil, Ident(N_Users, 12)), 0)

\* the statements of a schema file
SchemaStatements ==
    {DdlCreateShop, DdlCreateUsers, DdlCreateUsersInDatabase, DdlCreateShopOrders,
     DdlDropUsers, DdlAlterUsers}
    \cup {Maintenance(k, 0) : k \in MaintenanceKinds}

\* SELECT Id FROM name, the name in Table
SelectFrom(name) ==
    [Base(0) EXCEPT
        !.From = FromClause(TableExpr(TableIdentifier(Nil, Ident(name, PosTable(0))), Nil))]

\* SELECT Id FROM name, the name in Database
SelectFromInDatabase(name) ==
    [Base(0) EXCEPT
        !.From = FromClause(TableExpr(TableIdentifier(Ident(name, PosTable(0)), Nil), Nil))]

\* SELECT Id FROM Shop.Orders
SelectFromShopOrders ==
    [Base(0) EXCEPT
        !.From = FromClause(TableExpr(
            TableIdentifier(Ident(N_Shop, PosTable(0)), Ident(N_Orders, PosTable(0) + 5)),
            Nil))]

\* the ways a query names the table Users without a schema
UsersSpellings == {N_Users, N_users, N_USERS}

\* the statements of a query file: queries, and the statements of a schema
\* file that a query file may hold as well
QueryStatements ==
    {SelectFrom(n) : n \in UsersSpellings}
    \cup {SelectFromInDatabase(n) : n \in UsersSpellings}
    \cup {SelectFromShopOrders, DdlCreateUsers, DdlCreateShop}
    \cup {Maintenance(k, 0) : k \in MaintenanceKinds}

(* ------------------------------------------------------------------ *)
(* the compiler run: NewCompiler, the schema load, the queries          *)
(* ------------------------------------------------------------------ *)

\* the query statements compiled from one query file
MaxQueries == 1

\* clickhouse.NewParser(): what the compiler's test reads of it
NewParser ==
    [kind |-> "Parser", CommentSyntax |-> [Dash |-> TRUE, SlashStar |-> TRUE]]

InitCompile ==
    /\ NoneConverted
    /\ originalSQL = <<>>
    /\ processedSQL = <<>>
    /\ edits = <<>>
    /\ namedParams = <<>>
    /\ finalText = <<>>
    /\ stage = "start"
    /\ NoCompiler

\* NewCompiler, case config.EngineClickHouse
NewCompiler ==
    /\ stage = "start"
    /\ compiler' = [kind |-> "Compiler", parser |-> NewParser, catalog |-> NewCatalog]
    /\ stage' = "schema"
    /\ UNCHANGED <<stmtNodes, stmts, converter, result,
                   originalSQL, processedSQL, edits, namedParams, finalText>>

\* parseCatalog, for the next statement s of the schema file: the
\* statement is converted and the catalog updated with what it became
parseCatalog(s) ==
    /\ stage = "schema"
    /\ ParseStmt(s)
    /\ LET up == Update(compiler.catalog, stmts'[Len(stmts')].Stmt)
       IN  /\ compiler' = [compiler EXCEPT !.catalog = up.catalog]
           /\ result' = [result EXCEPT !.Errs = @ \o up.err]
    /\ UNCHANGED <<stage, originalSQL, processedSQL, edits, namedParams, finalText>>

\* the schema files are done: the parser is run on a query file
ParseQueries ==
    /\ stage = "schema"
    /\ stage' = "queries"
    /\ stmtNodes' = <<>>
    /\ stmts' = <<>>
    /\ converter' = NewCC
    /\ UNCHANGED <<compiler, result,
                   originalSQL, processedSQL, edits, namedParams, finalText>>

\* the table references of a converted statement
RangeVars(stmt) == OfKind(NodeSeq(stmt), "RangeVar")

\* the tables a converted statement names, as the catalog has them
SourceTables(cat, stmt) ==
    [k \in 1..Len(RangeVars(stmt)) |->
        lookupTable(cat, StrOf(RangeVars(stmt)[k].Schemaname),
                    StrOf(RangeVars(stmt)[k].Relname))]

\* what the compilation of one converted query statement adds to the
\* result: a Query for a SELECT or an INSERT whose tables the catalog has,
\* an error for one naming a table it lacks, nothing for any other node
Compiled(cat, stmt, res) ==
    IF stmt.kind \notin {"SelectStmt", "InsertStmt"} THEN res
    ELSE IF \E k \in 1..Len(SourceTables(cat, stmt)) : SourceTables(cat, stmt)[k] = NotFound
    THEN [res EXCEPT !.Errs = Append(@, "UnresolvedReferenceError")]
    ELSE [res EXCEPT !.Queries =
             Append(@, [cmd |-> stmt.kind, tables |-> SourceTables(cat, stmt)])]

\* a parseQuery that takes every statement it is given to the catalog too
parseQueryUpdating(s) ==
    /\ stage = "queries"
    /\ Len(stmts) < MaxQueries
    /\ ParseStmt(s)
    /\ compiler' = [compiler EXCEPT
                       !.catalog = Update(@, stmts'[Len(stmts')].Stmt).catalog]
    /\ result' = Compiled(compiler.catalog, stmts'[Len(stmts')].Stmt, result)
    /\ UNCHANGED <<stage, originalSQL, processedSQL, edits, namedParams, finalText>>

\* parseQuery, for the next statement s of the query file
parseQuery(s) ==
    /\ stage = "queries"
    /\ Len(stmts) < MaxQueries
    /\ ParseStmt(s)
    /\ result' = Compiled(compiler.catalog, stmts'[Len(stmts')].Stmt, result)
    /\ UNCHANGED <<compiler, stage,
                   originalSQL, processedSQL, edits, namedParams, finalText>>

NextCompile ==
    \/ NewCompiler
    \/ \E s \in SchemaStatements : parseCatalog(s)
    \/ ParseQueries
    \/ \E s \in QueryStatements : parseQuery(s)

SpecCompile == InitCompile /\ [][NextCompile]_vars

(* ------------------------------------------------------------------ *)
(* maintenance statements                                               *)
(* ------------------------------------------------------------------ *)

\* C11: a step that compiles an OPTIMIZE, DESCRIBE, EXPLAIN, SHOW or
\* TRUNCATE statement, in a schema file or a query file, converts it to the
\* placeholder and leaves the catalog, the Query records and the errors of
\* the run as they were.
MaintenanceLeavesNoTrace ==
    [][(/\ Len(stmtNodes') = Len(stmtNodes) + 1
        /\ stmtNodes'[Len(stmtNodes')].kind \in MaintenanceKinds)
       => /\ stmts'[Len(stmts')].Stmt = TODO
          /\ compiler'.catalog = compiler.catalog
          /\ result' = result]_vars

\* a maintenance statement of a query file compiled against a catalog that
\* holds a table
SeenMaintenance ==
    /\ stage = "queries"
    /\ stmtNodes # <<>>
    /\ stmtNodes[1].kind \in MaintenanceKinds
    /\ CatalogTables(compiler.catalog) # {}
    /\ result = NoResult

(* ------------------------------------------------------------------ *)
(* DROP and ALTER                                                       *)
(* ------------------------------------------------------------------ *)

\* C12: every CREATE TABLE, CREATE DATABASE, DROP and ALTER statement of
\* the schema converts to a node other than the placeholder, and a table
\* created and then dropped is gone from the catalog.
DropAndAlterReachCatalog ==
    stage = "schema" =>
        /\ \A i \in 1..Len(stmtNodes) :
              stmtNodes[i].kind \in {"CreateTable", "CreateDatabase", "DropStmt", "AlterTable"}
                  => stmts[i].Stmt # TODO
        /\ stmtNodes = <<DdlCreateUsers, DdlDropUsers>>
              => lookupTable(compiler.catalog, <<>>, N_Users) = NotFound

(* ------------------------------------------------------------------ *)
(* the catalog while queries are compiled                               *)
(* ------------------------------------------------------------------ *)

BareName(id) ==
    IF IsNil(id.Database) THEN id.Table.Name
    ELSE IF IsNil(id.Table) THEN id.Database.Name
    ELSE <<>>

\* the table identifier a SELECT reads from
FromTable(d) == d.From.Expr.Expr

\* C17: a CREATE TABLE with a one-part name, in either field of the
\* parser's identifier, becomes a CreateTableStmt with an empty Schema and
\* the lower-cased name, and the table is in the default schema; one with
\* a two-part name gets Schema = database and Name = table; and a query
\* that names a table of the default schema without a schema, in any
\* letter case, gets that table.
UnqualifiedTableResolves ==
    /\ stage = "schema" =>
          \A i \in 1..Len(stmtNodes) :
              stmtNodes[i].kind = "CreateTable" =>
                  LET id == stmtNodes[i].Name
                      out == stmts[i].Stmt.Name
                  IN  IF BareName(id) # <<>>
                      THEN /\ out.Schema = <<>>
                           /\ out.Name = ToLower(BareName(id))
                           /\ <<S_default, out.Name>> \in CatalogTables(compiler.catalog)
                      ELSE /\ out.Schema = ToLower(id.Database.Name)
                           /\ out.Name = ToLower(id.Table.Name)
    /\ stage = "queries" =>
          \A i \in 1..Len(stmtNodes) :
              (/\ stmtNodes[i].kind = "SelectQuery"
               /\ BareName(FromTable(stmtNodes[i])) # <<>>
               /\ <<S_default, ToLower(BareName(FromTable(stmtNodes[i])))>>
                      \in CatalogTables(compiler.catalog))
              => \E q \in 1..Len(result.Queries) :
                     /\ Len(result.Queries[q].tables) = 1
                     /\ result.Queries[q].tables[1].Name
                            = ToLower(BareName(FromTable(stmtNodes[i])))

(* ------------------------------------------------------------------ *)
(* a new compiler                                                       *)
(* ------------------------------------------------------------------ *)

\* C18: the compiler NewCompiler returns for ClickHouse comes without an
\* error, with a parser and a catalog; the catalog has one schema, named
\* "default" as its DefaultSchema is, without a table; the parser's
\* comment syntax has dash and slash-star comments.
FreshCompiler ==
    (stage = "schema" /\ stmtNodes = <<>>) =>
        /\ result.Errs = <<>>
        /\ compiler.parser # Nil
        /\ compiler.catalog # Nil
        /\ Len(compiler.catalog.Schemas) = 1
        /\ compiler.catalog.Schemas[1].Name = S_default
        /\ compiler.catalog.DefaultSchema = S_default
        /\ compiler.catalog.Schemas[1].Tables = <<>>
        /\ compiler.parser.CommentSyntax.Dash
        /\ compiler.parser.CommentSyntax.SlashStar

\* the compiler just made
CompilerMade ==
    /\ stage = "schema"
    /\ stmtNodes = <<>>
    /\ compiler # Nil

(* ------------------------------------------------------------------ *)
(* one query through the pipeline: preprocessing, parsing, conversion,  *)
(* the named-parameter rewrite and the mutation of the original text    *)
(* ------------------------------------------------------------------ *)

\* "sqlc."
T_sqlc_dot == <<115, 113, 108, 99, 46>>
\* "arg"
T_arg == <<97, 114, 103>>
\* "narg"
T_narg == <<110, 97, 114, 103>>
\* "slice"
T_slice == <<115, 108, 105, 99, 101>>
\* "SELECT"
T_SELECT == <<83, 69, 76, 69, 67, 84>>
\* "FROM"
T_FROM == <<70, 82, 79, 77>>
\* "WHERE"
T_WHERE == <<87, 72, 69, 82, 69>>
\* "AND"
T_AND == <<65, 78, 68>>
\* "?"
T_marker == <<63>>
\* "/*SLICE:"
T_slice_open == <<47, 42, 83, 76, 73, 67, 69, 58>>
\* "*/?"
T_slice_close == <<42, 47, 63>>
\* "("
T_open == <<40>>
\* ")"
T_close == <<41>>
\* "="
T_eq == <<61>>
\* "SELECT id FROM users WHERE id = "
Q_prefix == <<83, 69, 76, 69, 67, 84, 32, 105, 100, 32, 70, 82, 79, 77, 32, 117, 115, 101, 114, 115, 32, 87, 72, 69, 82, 69, 32, 105, 100, 32, 61, 32>>
\* " AND name = "
Q_mid == <<32, 65, 78, 68, 32, 110, 97, 109, 101, 32, 61, 32>>
\* "?"
F_marker == <<63>>
\* "sqlc.arg('id')"
F_arg_id == <<115, 113, 108, 99, 46, 97, 114, 103, 40, 39, 105, 100, 39, 41>>
\* "sqlc.narg('id')"
F_narg_id == <<115, 113, 108, 99, 46, 110, 97, 114, 103, 40, 39, 105, 100, 39, 41>>
\* "sqlc.slice('id')"
F_slice_id == <<115, 113, 108, 99, 46, 115, 108, 105, 99, 101, 40, 39, 105, 100, 39, 41>>
\* "sqlc.arg('nm')"
F_arg_nm == <<115, 113, 108, 99, 46, 97, 114, 103, 40, 39, 110, 109, 39, 41>>
\* "42"
F_number == <<52, 50>>

\* "*"
T_star == <<42>>
\* "SELECT * FROM users"
Q_star == <<83, 69, 76, 69, 67, 84, 32, 42, 32, 70, 82, 79, 77, 32, 117, 115, 101, 114, 115>>
\* "SELECT id FROM users"
Q_plain == <<83, 69, 76, 69, 67, 84, 32, 105, 100, 32, 70, 82, 79, 77, 32, 117, 115, 101, 114, 115>>
\* " WHERE id = "
Q_where == <<32, 87, 72, 69, 82, 69, 32, 105, 100, 32, 61, 32>>

\* what stands where a value is expected in the queries read
Forms == {F_marker, F_arg_id, F_narg_id, F_slice_id, F_arg_nm, F_number}

\* what stands there in the queries that select the star
StarForms == {F_marker, F_arg_id, F_number}

\* SELECT id FROM users WHERE id = x AND name = y, the same with the star
\* for its select list, and the two without a WHERE
Queries ==
    {Q_prefix \o x \o Q_mid \o y : x, y \in Forms}
    \cup {Q_star \o Q_where \o x \o Q_mid \o y : x, y \in StarForms}
    \cup {Q_star, Q_plain}

IsLetter(ch) == ch \in 65..90 \/ ch \in 97..122 \/ ch = 95

\* text has p at index i
HasAt(text, i, p) ==
    /\ i + Len(p) - 1 <= Len(text)
    /\ SubSeq(text, i, i + Len(p) - 1) = p

\* the index of the first ch in text at or after i, Len(text) + 1 without one
RECURSIVE IndexFrom(_, _, _)
IndexFrom(text, i, ch) ==
    IF i > Len(text) THEN i
    ELSE IF text[i] = ch THEN i
    ELSE IndexFrom(text, i + 1, ch)

\* the length of the annotation call sqlc.arg('..'), sqlc.narg('..') or
\* sqlc.slice('..') that text has at index i, 0 without one
CallLenAt(text, i) ==
    IF ~HasAt(text, i, T_sqlc_dot) THEN 0
    ELSE LET n == i + Len(T_sqlc_dot)
             name == IF HasAt(text, n, T_arg) THEN T_arg
                     ELSE IF HasAt(text, n, T_narg) THEN T_narg
                     ELSE IF HasAt(text, n, T_slice) THEN T_slice
                     ELSE <<>>
             q == n + Len(name) + 1
             e == IndexFrom(text, q + 1, 39)
         IN  IF name # <<>> /\ HasAt(text, n + Len(name), <<40, 39>>)
                /\ e > q + 1 /\ HasAt(text, e, <<39, 41>>)
             THEN e + 2 - i
             ELSE 0

\* the least of a set of numbers
Least(S) == CHOOSE x \in S : \A y \in S : x <= y

\* the index of the first annotation call of sql at or after i, Len(sql) + 1
\* without one
NextCall(sql, i) ==
    Least({j \in i..Len(sql) : CallLenAt(sql, j) > 0} \cup {Len(sql) + 1})

\* preprocessNamedParameters as the flow documents have it: each annotation
\* call becomes a ? marker
RECURSIVE PreprocessToMarkers(_, _)
PreprocessToMarkers(sql, i) ==
    LET n == NextCall(sql, i)
    IN  IF n > Len(sql) THEN SubSeq(sql, i, Len(sql))
        ELSE SubSeq(sql, i, n - 1) \o T_marker
                 \o PreprocessToMarkers(sql, n + CallLenAt(sql, n))

\* preprocessNamedParameters as convertFunctionExpr expects it: sqlc.name(..)
\* becomes sqlc_name(..)
RECURSIVE PreprocessToNames(_, _)
PreprocessToNames(sql, i) ==
    LET n == NextCall(sql, i)
    IN  IF n > Len(sql) THEN SubSeq(sql, i, Len(sql))
        ELSE SubSeq(sql, i, n - 1) \o S_sqlc_us
                 \o PreprocessToNames(sql, n + Len(T_sqlc_dot))

Token(type, text, pos) == [type |-> type, text |-> text, pos |-> pos]

\* the index after the run of word characters that starts at i
RECURSIVE WordEnd(_, _)
WordEnd(text, i) ==
    IF i <= Len(text) /\ (IsLetter(text[i]) \/ IsDigit(text[i]))
    THEN WordEnd(text, i + 1) ELSE i

\* the lexer: words, numbers, quoted strings and single symbols, each with
\* the offset of its first byte
RECURSIVE Lex(_, _)
Lex(text, i) ==
    IF i > Len(text) THEN <<>>
    ELSE IF text[i] = 32
    THEN Lex(text, Least({j \in i..Len(text) : text[j] # 32} \cup {Len(text) + 1}))
    ELSE IF IsLetter(text[i])
    THEN <<Token("word", SubSeq(text, i, WordEnd(text, i) - 1), i - 1)>>
         \o Lex(text, WordEnd(text, i))
    ELSE IF IsDigit(text[i])
    THEN <<Token("number", SubSeq(text, i, WordEnd(text, i) - 1), i - 1)>>
         \o Lex(text, WordEnd(text, i))
    ELSE IF text[i] = 39
    THEN LET e == IndexFrom(text, i + 1, 39)
         IN  <<Token("string", SubSeq(text, i + 1, e - 1), i - 1)>> \o Lex(text, e + 1)
    ELSE <<Token("symbol", <<text[i]>>, i - 1)>> \o Lex(text, i + 1)

IsSymbol(toks, k, s) ==
    k <= Len(toks) /\ toks[k].type = "symbol" /\ toks[k].text = s

IsWord(toks, k, w) ==
    k <= Len(toks) /\ toks[k].type = "word" /\ toks[k].text = w

\* a value at token k: a marker, a number, a call with one string argument
\* or a name; next is the token after it, node nil if there is no value
ParseValue(toks, k) ==
    IF k > Len(toks) THEN [node |-> Nil, next |-> k]
    ELSE IF IsSymbol(toks, k, T_marker)
    THEN [node |-> PlaceHolder(toks[k].pos), next |-> k + 1]
    ELSE IF toks[k].type = "number"
    THEN [node |-> NumberLiteral(toks[k].text, toks[k].pos), next |-> k + 1]
    ELSE IF toks[k].type = "word" /\ IsSymbol(toks, k + 1, T_open)
            /\ k + 3 <= Len(toks) /\ toks[k + 2].type = "string"
            /\ IsSymbol(toks, k + 3, T_close)
    THEN [node |-> FunctionExpr(Ident(toks[k].text, toks[k].pos),
                                <<StringLiteral(toks[k + 2].text, toks[k + 2].pos)>>),
          next |-> k + 4]
    ELSE IF toks[k].type = "word"
    THEN [node |-> Ident(toks[k].text, toks[k].pos), next |-> k + 1]
    ELSE [node |-> Nil, next |-> k]

\* name = value at token k
ParseCondition(toks, k) ==
    LET v == ParseValue(toks, k + 2)
    IN  IF k + 1 <= Len(toks) /\ toks[k].type = "word" /\ IsSymbol(toks, k + 1, T_eq)
           /\ ~IsNil(v.node)
        THEN [node |-> BinaryOperation(Ident(toks[k].text, toks[k].pos), Op_eq, v.node),
              next |-> v.next]
        ELSE [node |-> Nil, next |-> k]

\* the parser, for SELECT item FROM name [WHERE condition AND condition],
\* the item a name or the star, which is handed over as an identifier
\* named "*": nil for a text the grammar does not accept
ParseQuery(text) ==
    LET toks == Lex(text, 1)
        c1 == ParseCondition(toks, 6)
        c2 == ParseCondition(toks, c1.next + 1)
        head == /\ Len(toks) >= 4
                /\ IsWord(toks, 1, T_SELECT)
                /\ (toks[2].type = "word" \/ IsSymbol(toks, 2, T_star))
                /\ IsWord(toks, 3, T_FROM)
                /\ toks[4].type = "word"
        query == [SelectQuery(<<SelectItem(Ident(toks[2].text, toks[2].pos), Nil)>>,
                              toks[1].pos) EXCEPT
                     !.From = FromClause(TableExpr(
                                  TableIdentifier(Nil, Ident(toks[4].text, toks[4].pos)),
                                  Nil))]
    IN  IF head /\ Len(toks) = 4 THEN query
        ELSE IF /\ head /\ IsWord(toks, 5, T_WHERE)
                /\ ~IsNil(c1.node) /\ IsWord(toks, c1.next, T_AND) /\ ~IsNil(c2.node)
                /\ c2.next = Len(toks) + 1
        THEN [query EXCEPT !.Where = WhereClause(BinaryOperation(c1.node, Op_AND, c2.node))]
        ELSE Nil

\* the three annotation functions
ParamFuncs == {T_arg, T_narg, T_slice}

\* named.IsParamFunc: a call of sqlc.arg, sqlc.narg or sqlc.slice
IsParamFunc(n) ==
    /\ n.kind = "FuncCall"
    /\ n.Func.Schema = S_sqlc
    /\ n.Func.Name \in ParamFuncs

\* the name an annotation call gives its parameter: its string argument
ParamName(f) == f.Args.Items[1].Val.Str

\* the parameter of an annotation call
ParamInfo(f) ==
    [name |-> ParamName(f),
     nullable |-> (f.Func.Name = T_narg),
     isList |-> (f.Func.Name = T_slice)]

\* the edit for an annotation call, made from the node alone: the call
\* sqlc.name('param') at the node's Location gives way to a placeholder
EditFor(f) ==
    [Location |-> f.Location,
     OldLength |-> Len(T_sqlc_dot) + Len(f.Func.Name) + Len(ParamName(f)) + 4,
     NewText |-> IF f.Func.Name = T_slice
                 THEN T_slice_open \o ParamName(f) \o T_slice_close
                 ELSE T_marker]

\* the parameter set: one entry a name, the first use's
RECURSIVE ParamSet(_, _, _)
ParamSet(calls, k, acc) ==
    IF k > Len(calls) THEN acc
    ELSE IF \E j \in 1..Len(acc) : acc[j].name = ParamName(calls[k])
    THEN ParamSet(calls, k + 1, acc)
    ELSE ParamSet(calls, k + 1, Append(acc, ParamInfo(calls[k])))

\* rewrite.NamedParameters: an edit for every annotation call of the tree,
\* and the set of the parameters they name
NamedParameters(raw) ==
    LET calls == SelectSeq(NodeSeq(raw.Stmt), IsParamFunc)
    IN  [edits |-> [k \in 1..Len(calls) |-> EditFor(calls[k])],
         params |-> ParamSet(calls, 1, <<>>)]

\* c.quote, case config.EngineClickHouse
quote(x) == <<96>> \o x \o <<96>>

\* the quoted names of the columns, with ", " between them
RECURSIVE ColumnList(_, _)
ColumnList(cols, k) ==
    IF k > Len(cols) THEN <<>>
    ELSE (IF k > 1 THEN <<44, 32>> ELSE <<>>) \o quote(cols[k].Name) \o ColumnList(cols, k + 1)

\* a target of the select list that is the star: an A_Star node, alone or
\* among the fields of a column reference
IsStarTarget(n) ==
    /\ n.kind = "ResTarget"
    /\ \/ n.Val.kind = "A_Star"
       \/ /\ n.Val.kind = "ColumnRef"
          /\ \E k \in 1..Len(n.Val.Fields.Items) : n.Val.Fields.Items[k].kind = "A_Star"

\* the columns of the tables the statement reads from that the catalog has
SourceColumns(cat, stmt) ==
    ConcatAll([k \in 1..Len(SourceTables(cat, stmt)) |->
                  IF SourceTables(cat, stmt)[k] = NotFound THEN <<>>
                  ELSE SourceTables(cat, stmt)[k].Columns])

\* the edit that puts the column list in the place of each target given
ExpandEdits(cat, raw, targets) ==
    [k \in 1..Len(targets) |->
        [Location |-> targets[k].Location,
         OldLength |-> Len(T_star),
         NewText |-> ColumnList(SourceColumns(cat, raw.Stmt), 1)]]

\* an expand that takes every target of the select list for a star
expandEveryTarget(cat, raw) ==
    ExpandEdits(cat, raw, OfKind(NodeSeq(raw.Stmt), "ResTarget"))

\* expand: an edit for every star of the statement
expand(cat, raw) ==
    ExpandEdits(cat, raw, SelectSeq(NodeSeq(raw.Stmt), IsStarTarget))

\* the edits, the one furthest into the text first
RECURSIVE ByLocationDesc(_)
ByLocationDesc(es) ==
    IF es = <<>> THEN <<>>
    ELSE LET k == CHOOSE j \in 1..Len(es) :
                      \A m \in 1..Len(es) : es[m].Location <= es[j].Location
         IN  <<es[k]>> \o ByLocationDesc(SubSeq(es, 1, k - 1) \o SubSeq(es, k + 1, Len(es)))

\* the edits of a applied to the text from the idx-th on; no edit moves
\* the place of one still to come, and with an edit that reaches into the
\* one applied before it the pass fails
RECURSIVE ApplyFrom(_, _, _, _)
ApplyFrom(text, a, idx, strict) ==
    IF idx > Len(a) THEN [text |-> text, err |-> <<>>]
    ELSE IF strict /\ idx > 1 /\ a[idx - 1].Location < a[idx].Location + a[idx].OldLength
    THEN [text |-> <<>>, err |-> <<"RewriteConflictError">>]
    ELSE ApplyFrom(SubSeq(text, 1, a[idx].Location) \o a[idx].NewText
                       \o SubSeq(text, a[idx].Location + a[idx].OldLength + 1, Len(text)),
                   a, idx + 1, strict)

\* a Mutate that applies whatever edits it is given
MutateMerging(text, es) == ApplyFrom(text, ByLocationDesc(es), 1, FALSE)

\* source.Mutate: the edits applied to the text, or the failure of the pass
Mutate(text, es) == ApplyFrom(text, ByLocationDesc(es), 1, TRUE)

\* what preprocessNamedParameters can hand to the parser
preprocessNamedParameters(sql) ==
    {PreprocessToMarkers(sql, 1), PreprocessToNames(sql, 1)}

\* the compiler after the schema  CREATE TABLE Users (Id .., Name .., Email ..)
CompilerWithUsers ==
    [kind |-> "Compiler", parser |-> NewParser,
     catalog |-> Update(NewCatalog, convert(DdlCreateUsers, NewCC).node).catalog]

InitQuery ==
    /\ NoneConverted
    /\ originalSQL \in Queries
    /\ processedSQL = <<>>
    /\ edits = <<>>
    /\ namedParams = <<>>
    /\ finalText = <<>>
    /\ stage = "read"
    /\ compiler = CompilerWithUsers
    /\ result = NoResult

Preprocess ==
    /\ stage = "read"
    /\ processedSQL' \in preprocessNamedParameters(originalSQL)
    /\ stage' = "preprocessed"
    /\ UNCHANGED <<stmtNodes, stmts, converter, originalSQL, edits, namedParams, finalText,
                   compiler, result>>

Parse ==
    /\ stage = "preprocessed"
    /\ ParseStmt(ParseQuery(processedSQL))
    /\ stage' = "parsed"
    /\ UNCHANGED <<originalSQL, processedSQL, edits, namedParams, finalText,
                   compiler, result>>

\* the named-parameter rewrite and the expansion of the stars
Rewrite ==
    /\ stage = "parsed"
    /\ edits' = NamedParameters(stmts[1]).edits \o expand(compiler.catalog, stmts[1])
    /\ namedParams' = NamedParameters(stmts[1]).params
    /\ stage' = "rewritten"
    /\ UNCHANGED <<stmtNodes, stmts, converter, originalSQL, processedSQL, finalText,
                   compiler, result>>

\* the edits applied to the original text: the text to embed, or the
\* failure of the pass
Embed ==
    /\ stage = "rewritten"
    /\ LET m == Mutate(originalSQL, edits)
       IN  /\ finalText' = m.text
           /\ result' = [result EXCEPT !.Errs = @ \o m.err]
           /\ stage' = IF m.err = <<>> THEN "embedded" ELSE "failed"
    /\ UNCHANGED <<stmtNodes, stmts, converter, originalSQL, processedSQL, edits,
                   namedParams, compiler>>

NextQuery == Preprocess \/ Parse \/ Rewrite \/ Embed

SpecQuery == InitQuery /\ [][NextQuery]_vars

\* the offsets of the annotation calls of a text
CallOffsets(text) == {i - 1 : i \in {j \in 1..Len(text) : CallLenAt(text, j) > 0}}

NothingToRewrite(text) ==
    /\ \A i \in 1..Len(text) : text[i] \notin {42, 63}
    /\ CallOffsets(text) = {}

\* C14: a query without a wildcard, a parameter annotation or a positional
\* marker gets no edit, and the text embedded is the original text.
PlainQueryIsUntouched ==
    (stage \in {"rewritten", "embedded", "failed"} /\ NothingToRewrite(originalSQL)) =>
        /\ edits = <<>>
        /\ stage # "failed"
        /\ stage = "embedded" => finalText = originalSQL

\* such a query has come through the rewrite and been embedded
SeenPlainQuery ==
    /\ stage = "embedded"
    /\ NothingToRewrite(originalSQL)
    /\ stmts # <<>>
    /\ stmts[1].Stmt.kind = "SelectStmt"

(* ------------------------------------------------------------------ *)
(* the expansion of the star                                            *)
(* ------------------------------------------------------------------ *)

\* "SELECT `id`, `name`, `email` FROM users"
Q_star_expanded == <<83, 69, 76, 69, 67, 84, 32, 96, 105, 100, 96, 44, 32, 96, 110, 97, 109, 101, 96, 44, 32, 96, 101, 109, 97, 105, 108, 96, 32, 70, 82, 79, 77, 32, 117, 115, 101, 114, 115>>

\* C15: for SELECT * FROM users and a catalog with users(id, name, email)
\* the rewrite has one edit, at the star, and the text embedded is
\* SELECT `id`, `name`, `email` FROM users.
StarBecomesColumns ==
    (stage = "embedded" /\ originalSQL = Q_star) =>
        /\ Len(edits) = 1
        /\ edits[1].Location = Len(T_SELECT) + 1
        /\ finalText = Q_star_expanded

(* ------------------------------------------------------------------ *)
(* source.Mutate over the edits of the two families                     *)
(* ------------------------------------------------------------------ *)

\* the edits of one pass
MaxEdits == 2

\* "SELECT * FROM users WHERE id = sqlc.arg('id')"
Q_star_arg == Q_star \o Q_where \o F_arg_id

\* where the annotation call of Q_star_arg starts
CallAt == Len(Q_star) + Len(Q_where)

\* edits of the parameter canonicalization for Q_star_arg
ParamFamily ==
    {[Location |-> CallAt, OldLength |-> Len(F_arg_id), NewText |-> t] :
        t \in {T_marker, T_slice_open \o N_id \o T_slice_close}}

\* edits of the wildcard expansion for it: at the star, and at places that
\* lie in the annotation call
StarFamily ==
    {[Location |-> l, OldLength |-> Len(T_star), NewText |-> t] :
        l \in {Len(T_SELECT) + 1, CallAt, CallAt + 5, CallAt + Len(F_arg_id) - 1},
        t \in {quote(N_id), ColumnList(CompilerWithUsers.catalog.Schemas[1].Tables[1].Columns, 1)}}

\* the edit sets a pass may hand to Mutate
EditSeqs ==
    UNION {[1..n -> ParamFamily \cup StarFamily] : n \in 0..MaxEdits}

InitEdits ==
    /\ NoneConverted
    /\ originalSQL = Q_star_arg
    /\ processedSQL = <<>>
    /\ edits \in EditSeqs
    /\ namedParams = <<>>
    /\ finalText = <<>>
    /\ stage = "rewritten"
    /\ compiler = CompilerWithUsers
    /\ result = NoResult

SpecMutate == InitEdits /\ [][Embed]_vars

\* two of the edits have a byte of the text in common
Overlapping(es) ==
    \E i, j \in 1..Len(es) :
        /\ i # j
        /\ es[i].Location <= es[j].Location
        /\ es[j].Location < es[i].Location + es[i].OldLength

\* the text with the edits, given in ascending order, applied one after
\* the other from the k-th on; shift is how far the edits before have moved
\* what follows them
RECURSIVE InAscendingOrder(_, _, _, _)
InAscendingOrder(text, es, k, shift) ==
    IF k > Len(es) THEN text
    ELSE InAscendingOrder(
             SubSeq(text, 1, es[k].Location + shift) \o es[k].NewText
                 \o SubSeq(text, es[k].Location + shift + es[k].OldLength + 1, Len(text)),
             es, k + 1, shift + Len(es[k].NewText) - es[k].OldLength)

\* C13: a pass that ends with a final text had edits that do not overlap,
\* and the text is the original with each edit applied once, in ascending
\* order of offset; a pass whose edits overlap, an edit of the parameter
\* canonicalization and one of the wildcard expansion among them, fails
\* with RewriteConflictError and has no final text.
EditsAppliedOnceOrRejected ==
    /\ stage = "embedded" =>
          /\ ~Overlapping(edits)
          /\ finalText = InAscendingOrder(originalSQL,
                             SortSeq(edits, LAMBDA a, b : a.Location < b.Location), 1, 0)
    /\ stage = "failed" =>
          /\ Overlapping(edits)
          /\ finalText = <<>>
          /\ result.Errs = <<"RewriteConflictError">>

\* a pass with an edit of each family, the two overlapping, has failed
SeenConflict ==
    /\ stage = "failed"
    /\ \E i, j \in 1..Len(edits) :
           /\ edits[i] \in ParamFamily
           /\ edits[j] \in StarFamily
           /\ edits[i].Location <= edits[j].Location
           /\ edits[j].Location < edits[i].Location + edits[i].OldLength

(* ------------------------------------------------------------------ *)
(* the statements of one source and their places in it                  *)
(* ------------------------------------------------------------------ *)

\* the statements of one source
MaxSourceStmts == 2

\* "-- name:"
T_name == <<45, 45, 32, 110, 97, 109, 101, 58>>

\* " Q :many" and the end of the line
T_name_rest == <<32, 81, 32, 58, 109, 97, 110, 121, 10>>

\* the end of a statement: ";" and the end of the line
T_end == <<59, 10>>

\* the queries a source is made of
SourceBodies ==
    {Q_plain, Q_star,
     Q_prefix \o F_arg_id \o Q_mid \o F_marker,
     Q_prefix \o F_slice_id \o Q_mid \o F_number,
     Q_star \o Q_where \o F_arg_id \o Q_mid \o F_arg_id}

\* a query under its name comment
NamedQuery(q) == T_name \o T_name_rest \o q \o T_end

\* the texts of the sources: one named query after the other
Sources ==
    {ConcatAll([k \in 1..Len(qs) |-> NamedQuery(qs[k])]) :
        qs \in UNION {[1..n -> SourceBodies] : n \in 1..MaxSourceStmts}}

\* the offsets of the name comments of the text from index i on, in the
\* order of the text
RECURSIVE NameCommentsFrom(_, _)
NameCommentsFrom(text, i) ==
    LET n == Least({j \in i..Len(text) : HasAt(text, j, T_name)} \cup {Len(text) + 1})
    IN  IF n > Len(text) THEN <<>>
        ELSE <<n - 1>> \o NameCommentsFrom(text, n + Len(T_name))

\* nameCommentPositions: where each name comment starts, and the end of
\* the text after the last
nameCommentPositions(text) == NameCommentsFrom(text, 1) \o <<Len(text)>>

\* the text with nothing but the i-th statement left in its place: what
\* is outside it, its comment line, and the ends of line and of statement
\* are blank
StatementText(text, i) ==
    LET P == nameCommentPositions(text)
        body == IndexFrom(text, P[i] + 1, 10)
    IN  [k \in 1..Len(text) |->
            IF k > body /\ k <= P[i + 1] /\ text[k] \notin {10, 59} THEN text[k] ELSE 32]

\* the statements the parser finds in the text
ParseStatements(text) ==
    [i \in 1..(Len(nameCommentPositions(text)) - 1) |-> ParseQuery(StatementText(text, i))]

\* a RawStmt whose length is the end of its statement
RawStmtToEnd(out, statementStart, statementEnd) ==
    [kind |-> "RawStmt", Stmt |-> out,
     StmtLocation |-> statementStart, StmtLen |-> statementEnd]

\* &ast.RawStmt{Stmt: out, StmtLocation: statementStart,
\*              StmtLen: statementEnd - statementStart}
RawStmtAt(out, statementStart, statementEnd) ==
    [kind |-> "RawStmt", Stmt |-> out,
     StmtLocation |-> statementStart, StmtLen |-> statementEnd - statementStart]

InitSource ==
    /\ NoneConverted
    /\ originalSQL \in Sources
    /\ processedSQL = <<>>
    /\ edits = <<>>
    /\ namedParams = <<>>
    /\ finalText = <<>>
    /\ stage = "source"
    /\ compiler = CompilerWithUsers
    /\ result = NoResult

\* Parse, up to its loop: the annotations give way to markers and the
\* parser reads the statements
ReadSource ==
    /\ stage = "source"
    /\ \E p \in preprocessNamedParameters(originalSQL) :
           /\ processedSQL' = p
           /\ stmtNodes' = ParseStatements(p)
    /\ stage' = "loop"
    /\ UNCHANGED <<stmts, converter, originalSQL, edits, namedParams, finalText,
                   compiler, result>>

\* one iteration of `for i := range stmtNodes`, with the place of the
\* statement in the original text
LocateStmt ==
    /\ stage = "loop"
    /\ Len(stmts) < Len(stmtNodes)
    /\ LET i == Len(stmts) + 1
           out == convert(stmtNodes[i], LoopConverter(converter))
           statementStart == nameCommentPositions(originalSQL)[i]
           statementEnd == nameCommentPositions(originalSQL)[i + 1]
       IN  /\ stmts' = Append(stmts, RawStmtAt(out.node, statementStart, statementEnd))
           /\ converter' = out.c
    /\ UNCHANGED <<stmtNodes, originalSQL, processedSQL, edits, namedParams, finalText,
                   stage, compiler, result>>

NextSource == ReadSource \/ LocateStmt

SpecSource == InitSource /\ [][NextSource]_vars

ArgCalls(stmt) ==
    SelectSeq(OfKind(ChNodeSeq(stmt), "FunctionExpr"),
              LAMBDA d : /\ ToLower(d.Name.Name) = S_sqlc_us \o T_arg
                         /\ Len(CallArgs(d)) = 1
                         /\ CallArgs(d)[1].kind = "StringLiteral")

\* the markers of a parsed statement
Markers(stmt) ==
    SelectSeq(ChNodeSeq(stmt), LAMBDA d : d.kind \in {"PlaceHolder", "QueryParam"})

MarkerKinds == {"PlaceHolder", "QueryParam"}

\* C20: the converter a conversion leaves behind has the parameter counter
\* and nothing else. Converting a PlaceHolder or a QueryParam adds exactly
\* 1 to the counter; converting any other node adds exactly the number of
\* markers converted beneath it, one for every ParamRef of the tree it
\* returns, the same whatever the counter was before; the numbers given
\* out lie above the counter's old value, so it never falls or starts again.
CounterCountsMarkers ==
    \A i \in Converted :
        \A d \in Range(ChNodeSeq(stmtNodes[i])) :
            (~IsNil(d) /\ d.kind \in SwitchKinds) =>
                \A c \in Counters :
                    LET r == convert(d, c)
                        refs == ParamRefs(r.node)
                    IN  /\ DOMAIN r.c = {"paramCount"}
                        /\ r.c.paramCount >= c.paramCount
                        /\ d.kind \in MarkerKinds => r.c.paramCount = c.paramCount + 1
                        /\ r.c.paramCount = c.paramCount + Len(refs)
                        /\ {refs[k].Number : k \in 1..Len(refs)}
                               = (c.paramCount + 1)..r.c.paramCount

\* a statement with markers of both kinds has been converted and the
\* converter has counted them
SeenCounterAdvance ==
    /\ stmts # <<>>
    /\ \E d \in Range(ChNodeSeq(stmtNodes[Len(stmtNodes)])) : d.kind = "PlaceHolder"
    /\ \E d \in Range(ChNodeSeq(stmtNodes[Len(stmtNodes)])) : d.kind = "QueryParam"
    /\ converter.paramCount >= 2

(* ------------------------------------------------------------------ *)
(* the star of a select list, converted                                 *)
(* ------------------------------------------------------------------ *)

\* C21: the select converted from SELECT * FROM users has in its target
\* list one target whose value is the wildcard, an A_Star alone or in a
\* column reference, located at the star; it is neither a String nor a TODO.
StarConvertsToWildcard ==
    (stage \in {"parsed", "rewritten", "embedded"} /\ originalSQL = Q_star) =>
        LET targets == stmts[1].Stmt.TargetList.Items
        IN  /\ Len(targets) = 1
            /\ IsStarTarget(targets[1])
            /\ targets[1].Location = Len(T_SELECT) + 1
            /\ targets[1].Val.kind \notin {"String", "TODO"}

(* ------------------------------------------------------------------ *)
(* one node through the converter                                       *)
(* ------------------------------------------------------------------ *)

\* the parser positions of the literals enumerated: 0 .. MaxPos
MaxPos == 3

\* the length of the number literals enumerated
MaxLiteralLen == 4

\* a string literal as the parser has it: Pos() is p
StringLiteralAt(lit, p) == [kind |-> "StringLiteral", Literal |-> lit, pos |-> p]

\* '', 'id', 'Id', 'A b' and 'sqlc.ARG' at every position
StringLiterals ==
    {StringLiteralAt(lit, p) :
        lit \in {<<>>, N_id, <<73, 100>>, <<65, 32, 98>>, T_sqlc_dot \o <<65, 82, 71>>},
        p \in 0..MaxPos}

\* the characters of the number literals enumerated: 0 1 9 . e E x F -
NumberChars == {48, 49, 57, 46, 101, 69, 120, 70, 45}

\* 0x and hexadecimal digits after it
IsHexForm(t) ==
    /\ Len(t) > 2
    /\ t[1] = 48
    /\ t[2] \in {120, 88}
    /\ \A i \in 3..Len(t) : IsHexDigit(t[i])

\* digits, with a fraction and an exponent if any
IsDecimalForm(t) ==
    /\ Len(t) > 0
    /\ IsDigit(t[1])
    /\ \/ IsMantissa(t, FALSE)
       \/ \E k \in 1..Len(t) :
             /\ t[k] \in {101, 69}
             /\ IsMantissa(SubSeq(t, 1, k - 1), FALSE)
             /\ IsExponent(SubSeq(t, k + 1, Len(t)))

\* 2^63, and a number of twenty digits
BigNumbers ==
    {<<57, 50, 50, 51, 51, 55, 50, 48, 51, 54, 56, 53, 52, 55, 55, 53, 56, 48, 56>>,
     [i \in 1..20 |-> 57]}

\* the number literals the parser accepts, of the characters and the
\* length enumerated, and the big ones
NumberTexts ==
    {t \in UNION {[1..n -> NumberChars] : n \in 1..MaxLiteralLen} :
        IsDecimalForm(t) \/ IsHexForm(t)}
    \cup BigNumbers

NumberLiterals == {NumberLiteral(t, p) : t \in NumberTexts, p \in {0, MaxPos}}

\* the modifiers of one join
MaxModifiers == 2

\* LEFT left Left RIGHT right FULL Full INNER inner OUTER ANY
JoinModifiers ==
    {S_LEFT, ToLower(S_LEFT), <<76, 101, 102, 116>>, S_RIGHT, ToLower(S_RIGHT),
     S_FULL, <<70, 117, 108, 108>>, S_INNER, ToLower(S_INNER),
     <<79, 85, 84, 69, 82>>, <<65, 78, 89>>}

\* Users
JoinLeftTable == TableExpr(TableIdentifier(Nil, Ident(N_Users, PosTable(0))), Nil)

\* Orders
JoinRightTable ==
    JoinTableExpr(TableExpr(TableIdentifier(Nil, Ident(N_Orders, PosTable2(0))), Nil))

\* Users.Id = ?
JoinOn ==
    BinaryOperation(
        NestedIdentifier(Ident(N_Users, PosTable2(0) + 10), Ident(N_Id, PosTable2(0) + 16)),
        Op_eq,
        PlaceHolder(PosTable2(0) + 21))

\* SELECT Id FROM left [modifiers] JOIN Orders [ON Users.Id = ?], where left
\* is Users or the join  Users RIGHT JOIN Orders
JoinSelects ==
    {[Base(0) EXCEPT !.From = FromClause(JoinExpr(l, JoinRightTable, mods, on))] :
        l \in {JoinLeftTable, JoinExpr(JoinLeftTable, JoinRightTable, <<S_RIGHT>>, Nil)},
        mods \in UNION {[1..n -> JoinModifiers] : n \in 0..MaxModifiers},
        on \in {Nil, JoinOn}}

\* the rows of one INSERT, and the values of one row
MaxRows == 2

\* the values of the rows enumerated: 42 and ?
InsertValues == {NumberLiteral(L_42, 40), PlaceHolder(44)}

\* the rows: one or two values
InsertRows ==
    {AssignmentValues(vs) : vs \in UNION {[1..n -> InsertValues] : n \in 1..MaxRows}}

\* the column lists: none, (Id), (Id, Name), (Tags.Id, Name)
InsertColumns ==
    {Nil,
     ColumnNamesExpr(<<NestedIdentifierName(Ident(N_Id, 19))>>),
     ColumnNamesExpr(<<NestedIdentifierName(Ident(N_Id, 19)),
                       NestedIdentifierName(Ident(N_Name, 23))>>),
     ColumnNamesExpr(<<NestedIdentifier(Ident(N_Tags, 19), Ident(N_Id, 24)),
                       NestedIdentifierName(Ident(N_Name, 28))>>)}

\* INSERT INTO Users [columns] VALUES rows | SELECT Id FROM Users
InsertStmts ==
    {InsertStmt(TableIdentifier(Nil, Ident(N_Users, 12)), cols, rows, sel, 0) :
        cols \in InsertColumns,
        rows \in UNION {[1..n -> InsertRows] : n \in 0..MaxRows},
        sel \in {Nil, Base(0)}}

\* the entries of one table schema
MaxColumns == 3

\* "DateTime"
N_DateTime == <<68, 97, 116, 101, 84, 105, 109, 101>>

\* a column whose name the parser has put in DotIdent
ColumnDefDotted(name, type, notNull) ==
    [ColumnDef(name, type, notNull) EXCEPT
        !.Name = [kind |-> "NestedIdentifier", Ident |-> Nil, DotIdent |-> name,
                  pos |-> name.pos]]

\* an entry of a table schema that is no column definition: an index
IndexEntry(pos) == [kind |-> "TableIndex", pos |-> pos]

\* Id UInt64 NOT NULL, Name String, Email DateTime, Total UInt64 with the
\* name in DotIdent, and an index
SchemaEntries ==
    {ColumnDef(Ident(N_Id, 20), ScalarType(N_UInt64, 23), TRUE),
     ColumnDef(Ident(N_Name, 40), ScalarType(N_String, 45), FALSE),
     ColumnDef(Ident(N_Email, 53), ScalarType(N_DateTime, 59), FALSE),
     ColumnDefDotted(Ident(N_Total, 70), ScalarType(N_UInt64, 76), TRUE),
     IndexEntry(90)}

\* CREATE TABLE [IF NOT EXISTS] Users (entries)
CreateTables ==
    {CreateTable(TableIdentifier(Nil, Ident(N_Users, 13)), ifNotExists, entries, 0) :
        ifNotExists \in BOOLEAN,
        entries \in UNION {[1..n -> SchemaEntries] : n \in 0..MaxColumns}}

\* the ClickHouse integer types
IntegerTypeNames ==
    {<<73, 110, 116, 56>>, <<73, 110, 116, 49, 54>>, <<73, 110, 116, 51, 50>>,
     <<73, 110, 116, 54, 52>>, <<73, 110, 116, 49, 50, 56>>, <<73, 110, 116, 50, 53, 54>>,
     <<85, 73, 110, 116, 56>>, <<85, 73, 110, 116, 49, 54>>, <<85, 73, 110, 116, 51, 50>>,
     N_UInt64, <<85, 73, 110, 116, 49, 50, 56>>, <<85, 73, 110, 116, 50, 53, 54>>}

\* other type names: String, DateTime, Float64, Bool, UUID, JSON, Point,
\* Nullable(Int32), Array(Int8), and the empty name
OtherTypeNames ==
    {N_String, N_DateTime, <<70, 108, 111, 97, 116, 54, 52>>, <<66, 111, 111, 108>>,
     <<85, 85, 73, 68>>, <<74, 83, 79, 78>>, <<80, 111, 105, 110, 116>>,
     <<78, 117, 108, 108, 97, 98, 108, 101, 40, 73, 110, 116, 51, 50, 41>>,
     <<65, 114, 114, 97, 121, 40, 73, 110, 116, 56, 41>>, <<>>}

\* a name with the letters at the places of the set in the other case
Recase(name, places) ==
    [i \in 1..Len(name) |->
        IF i \in places
        THEN IF name[i] \in 65..90 THEN name[i] + 32
             ELSE IF name[i] \in 97..122 THEN name[i] - 32
             ELSE name[i]
        ELSE name[i]]

\* the names as written, all in lower case, all in upper case, and with
\* the case of the first, of the second and of the last letter changed
Recasings(name) ==
    {name, ToLower(name), ToUpper(name)}
        \cup {Recase(name, {i}) : i \in {1, 2, Len(name)} \cap (1..Len(name))}

\* CAST(Id AS type) for each of the names
TypeCasts ==
    {CastExpr(Ident(N_Id, 5), ScalarType(n, 11), 0) :
        n \in UNION {Recasings(t) : t \in IntegerTypeNames \cup OtherTypeNames}}

\* the expressions of one ARRAY JOIN
MaxArrayJoins == 2

\* Tags AS Tag, Name AS Total, and Tags without an alias
ArrayJoinItems ==
    {SelectItem(Ident(N_Tags, PosArrayJoin(0)), Ident(N_Tag, PosArrayJoin(0) + 8)),
     SelectItem(Ident(N_Name, PosArrayJoin2(0)), Ident(N_Total, PosArrayJoin2(0) + 8)),
     SelectItem(Ident(N_Tags, PosArrayJoin(0)), Nil)}

\* what follows ARRAY JOIN: one expression, or a list of expressions
ArrayJoinExprs ==
    ArrayJoinItems
        \cup {Ident(N_Tags, PosArrayJoin(0))}
        \cup {ColumnExprList(es) :
                 es \in UNION {[1..n -> ArrayJoinItems] : n \in 1..MaxArrayJoins}}

\* SELECT Id FROM Users [LEFT] ARRAY JOIN expressions
ArrayJoinSelects ==
    {[Base(0) EXCEPT !.ArrayJoin = ArrayJoinClause(type, e)] :
        type \in {"", "LEFT", "INNER"}, e \in ArrayJoinExprs}

\* the nodes converted on their own
Nodes ==
    StringLiterals \cup NumberLiterals \cup JoinSelects \cup InsertStmts \cup CreateTables
        \cup TypeCasts \cup ArrayJoinSelects

InitNode ==
    /\ stmtNodes \in {<<n>> : n \in Nodes}
    /\ stmts = <<>>
    /\ converter = NewCC
    /\ originalSQL = <<>>
    /\ processedSQL = <<>>
    /\ edits = <<>>
    /\ namedParams = <<>>
    /\ finalText = <<>>
    /\ stage = "node"
    /\ NoCompiler

\* c.convert(node) with a fresh converter
ConvertNode ==
    /\ stage = "node"
    /\ LET out == convert(stmtNodes[1], NewCC)
       IN  /\ stmts' = <<RawStmt(out.node)>>
           /\ converter' = out.c
    /\ stage' = "converted"
    /\ UNCHANGED <<stmtNodes, originalSQL, processedSQL, edits, namedParams, finalText,
                   compiler, result>>

SpecNode == InitNode /\ [][ConvertNode]_vars

\* the node of the given kind has been converted
ConvertedKind(kind) == stage = "converted" /\ stmtNodes[1].kind = kind

(* ------------------------------------------------------------------ *)
(* string literals                                                      *)
(* ------------------------------------------------------------------ *)

\* C22: a string literal becomes a constant with the text of the literal
\* as it is and a Location that is the parser position less 1, or 0 for
\* the position 0; the Location is never negative.
StringLiteralKeepsTextAndQuote ==
    ConvertedKind("StringLiteral") =>
        LET lit == stmtNodes[1]
            out == stmts[1].Stmt
        IN  /\ out.kind = "A_Const"
            /\ out.Val = [kind |-> "String", Str |-> lit.Literal]
            /\ out.Location >= 0
            /\ lit.pos > 0 => out.Location = lit.pos - 1
            /\ lit.pos = 0 => out.Location = 0

\* a literal with a capital letter, at the position 0, has been converted
SeenStringLiteralAtZero ==
    /\ ConvertedKind("StringLiteral")
    /\ stmtNodes[1].pos = 0
    /\ \E i \in 1..Len(stmtNodes[1].Literal) : stmtNodes[1].Literal[i] \in 65..90
    /\ stmts[1].Stmt.Location = 0

(* ------------------------------------------------------------------ *)
(* number literals                                                      *)
(* ------------------------------------------------------------------ *)

\* the text without its leading zeros, the last digit kept
RECURSIVE StripZeros(_)
StripZeros(t) == IF Len(t) > 1 /\ t[1] = 48 THEN StripZeros(Tail(t)) ELSE t

\* a before b, digit by digit, for texts of one length
RECURSIVE DigitsLeq(_, _)
DigitsLeq(a, b) ==
    IF a = <<>> THEN TRUE
    ELSE IF a[1] # b[1] THEN a[1] < b[1]
    ELSE DigitsLeq(Tail(a), Tail(b))

\* "9223372036854775807", 2^63 - 1
MaxInt64Text == <<57, 50, 50, 51, 51, 55, 50, 48, 51, 54, 56, 53, 52, 55, 55, 53, 56, 48, 55>>

\* a decimal integer, no sign, in the signed 64-bit range
IsInt64Text(t) ==
    /\ Len(t) > 0
    /\ AllDigits(t)
    /\ \/ Len(StripZeros(t)) < Len(MaxInt64Text)
       \/ Len(StripZeros(t)) = Len(MaxInt64Text) /\ DigitsLeq(StripZeros(t), MaxInt64Text)

\* the value of a hexadecimal digit
HexDigitValue(ch) ==
    IF ch \in 48..57 THEN ch - 48 ELSE IF ch \in 97..102 THEN ch - 87 ELSE ch - 55

\* the number that hexadecimal digits denote
RECURSIVE HexValue(_)
HexValue(s) ==
    IF Len(s) = 0 THEN 0
    ELSE HexValue(SubSeq(s, 1, Len(s) - 1)) * 16 + HexDigitValue(s[Len(s)])

\* C23: a number literal that is a decimal integer of the 64-bit range
\* becomes an Integer constant with that value; any other literal becomes
\* a constant for the same number: a Float with the text of the literal,
\* or an Integer with the value the text denotes.
NumberLiteralKeepsValue ==
    ConvertedKind("NumberLiteral") =>
        LET t == stmtNodes[1].Literal
            out == stmts[1].Stmt
        IN  /\ out.kind = "A_Const"
            /\ IsInt64Text(t) => out.Val = [kind |-> "Integer", Ival |-> DecimalValue(t)]
            /\ ~IsInt64Text(t) =>
                  \/ out.Val = [kind |-> "Float", Str |-> t]
                  \/ /\ IsHexForm(t)
                     /\ out.Val = [kind |-> "Integer", Ival |-> HexValue(SubSeq(t, 3, Len(t)))]

(* ------------------------------------------------------------------ *)
(* joins                                                                *)
(* ------------------------------------------------------------------ *)

\* the select just converted has a join for its FROM
ConvertedJoin ==
    /\ ConvertedKind("SelectQuery")
    /\ ~IsNil(stmtNodes[1].From)
    /\ stmtNodes[1].From.Expr.kind = "JoinExpr"

\* the join has the modifier w, in some letter case
HasModifier(join, w) ==
    \E i \in 1..Len(join.Modifiers) : ToUpper(join.Modifiers[i]) = w

\* C24: a join becomes a JoinExpr with the converted left operand for its
\* Larg, the converted right operand for its Rarg and the converted
\* constraint for its Quals; its type is that of the first of LEFT, RIGHT,
\* FULL, INNER that is among its modifiers in some letter case, and Inner
\* without any of them.
JoinKeepsOperandsAndType ==
    ConvertedJoin =>
        LET join == stmtNodes[1].From.Expr
            out == stmts[1].Stmt.FromClause.Items[1]
        IN  /\ Len(stmts[1].Stmt.FromClause.Items) = 1
            /\ out.kind = "JoinExpr"
            /\ out.Larg = convertFromExpr(join.Left, NewCC).node
            /\ out.Rarg = convertFromExpr(join.Right, NewCC).node
            /\ out.Rarg.kind = "RangeVar"
            /\ out.Rarg.Relname = StrPtr(ToLower(N_Orders))
            /\ out.Larg.kind \in {"RangeVar", "JoinExpr"}
            /\ out.Quals = (IF IsNil(join.Constraints) THEN Nil
                            ELSE convert(join.Constraints, NewCC).node)
            /\ out.Jointype =
                  (IF HasModifier(join, S_LEFT) THEN "JoinTypeLeft"
                   ELSE IF HasModifier(join, S_RIGHT) THEN "JoinTypeRight"
                   ELSE IF HasModifier(join, S_FULL) THEN "JoinTypeFull"
                   ELSE "JoinTypeInner")

\* a join with  right  before  Left  and an ON condition has become a
\* left join with its condition
SeenLeftAfterRight ==
    /\ ConvertedJoin
    /\ stmtNodes[1].From.Expr.Modifiers = <<ToLower(S_RIGHT), <<76, 101, 102, 116>>>>
    /\ stmts[1].Stmt.FromClause.Items[1].Jointype = "JoinTypeLeft"
    /\ stmts[1].Stmt.FromClause.Items[1].Quals.kind = "A_Expr"

(* ------------------------------------------------------------------ *)
(* INSERT                                                               *)
(* ------------------------------------------------------------------ *)

\* the names a column of an INSERT is written with: name, or name.name
ColumnNameParts(col) ==
    (IF IsNil(col.Ident) THEN <<>> ELSE <<col.Ident.Name>>)
        \o (IF IsNil(col.DotIdent) THEN <<>> ELSE <<col.DotIdent.Name>>)

\* the names the columns are written with, in the order of the source
ColumnNamesWritten(cols) ==
    ConcatAll([k \in 1..Len(cols) |-> ColumnNameParts(cols[k])])

\* the values of the rows, one row after the other
RowMajor(rows) == ConcatAll([i \in 1..Len(rows) |-> rows[i].Values])

\* how many values come before the j-th value of the i-th row
ValuesBefore(rows, i, j) == Len(RowMajor(SubSeq(rows, 1, i - 1))) + j - 1

\* the constant or the parameter a value of a row becomes, the parameter
\* with the number of its place among the markers of the rows
ExpectedValue(rows, i, j) ==
    LET v == rows[i].Values[j]
        before == SubSeq(RowMajor(rows), 1, ValuesBefore(rows, i, j))
    IN  IF v.kind = "PlaceHolder"
        THEN [kind |-> "ParamRef",
              Number |-> Len(SelectSeq(before, LAMBDA w : w.kind = "PlaceHolder")) + 1,
              Location |-> v.pos, Dollar |-> FALSE]
        ELSE [kind |-> "A_Const",
              Val |-> [kind |-> "Integer", Ival |-> DecimalValue(v.Literal)],
              Location |-> v.pos]

\* the column list of the converted INSERT has the names the columns are
\* written with, lower-cased, in the order of the source
InsertColumnsKept(ins, out) ==
    /\ out.Cols.kind = "List"
    /\ IsNil(ins.ColumnNames) => out.Cols.Items = <<>>
    /\ ~IsNil(ins.ColumnNames) =>
          LET names == ColumnNamesWritten(ins.ColumnNames.ColumnNames)
          IN  out.Cols.Items =
                  [k \in 1..Len(names) |-> [kind |-> "String", Str |-> ToLower(names[k])]]

\* the select part of the converted INSERT: the converted SELECT when there
\* is one, else a list a row with the row's values
InsertSourceKept(ins, out) ==
    /\ ~IsNil(ins.SelectExpr) =>
          /\ out.SelectStmt.kind = "SelectStmt"
          /\ out.SelectStmt.TargetList = convert(ins.SelectExpr, NewCC).node.TargetList
          /\ out.SelectStmt.FromClause = convert(ins.SelectExpr, NewCC).node.FromClause
          /\ IsNil(out.SelectStmt.ValuesLists)
    /\ (IsNil(ins.SelectExpr) /\ Len(ins.Values) > 0) =>
          /\ out.SelectStmt.kind = "SelectStmt"
          /\ out.SelectStmt.ValuesLists.kind = "List"
          /\ Len(out.SelectStmt.ValuesLists.Items) = Len(ins.Values)
          /\ \A i \in 1..Len(ins.Values) :
                /\ out.SelectStmt.ValuesLists.Items[i].kind = "List"
                /\ out.SelectStmt.ValuesLists.Items[i].Items =
                      [j \in 1..Len(ins.Values[i].Values) |-> ExpectedValue(ins.Values, i, j)]

ColumnDefName(col) ==
    IF ~IsNil(col.Name.Ident) THEN col.Name.Ident.Name ELSE col.Name.DotIdent.Name

\* the type of the canonical tree for the types of the columns enumerated
MappedTypeOf(name) ==
    IF name = N_UInt64 THEN S_uint64
    ELSE IF name = N_String THEN S_text
    ELSE S_timestamp

IntegerOrNumeric ==
    {S_uint8, S_uint16, S_uint32, S_uint64, S_int8, S_int16, S_int32, S_int64, S_numeric}

\* every result the switch of the type mapping has
MappedTypes ==
    IntegerOrNumeric
        \cup {S_real, S_double_precision, S_text, S_varchar, S_date, S_timestamp,
              S_boolean, S_uuid, S_text_arr, S_jsonb}

\* a cast to a type has been converted
ConvertedType ==
    /\ ConvertedKind("CastExpr")
    /\ stmtNodes[1].AsType.kind = "ScalarType"

\* C30: the type mapping gives every name a result, the same for a name
\* and for the name in another letter case, and for each of the twelve
\* integer types Int8 .. Int256 and UInt8 .. UInt256 an integer or numeric
\* type, not text.
TypeMappingCoversIntegers ==
    ConvertedType =>
        LET name == stmtNodes[1].AsType.Name
            out == stmts[1].Stmt.TypeName
        IN  /\ out.kind = "TypeName"
            /\ out.Name \in MappedTypes
            /\ out.Name = mapClickHouseType(ToLower(name))
            /\ out.Name = mapClickHouseType(ToUpper(name))
            /\ (\E t \in IntegerTypeNames : ToLower(t) = ToLower(name)) =>
                  /\ out.Name \in IntegerOrNumeric
                  /\ out.Name # S_text

(* ------------------------------------------------------------------ *)
(* ARRAY JOIN                                                           *)
(* ------------------------------------------------------------------ *)

\* a select with ARRAY JOIN has been converted
ConvertedArrayJoin ==
    /\ ConvertedKind("SelectQuery")
    /\ ~IsNil(stmtNodes[1].ArrayJoin)

\* the expressions of an ARRAY JOIN, in the order of the source
ArrayJoinSources(arrayJoin) ==
    IF arrayJoin.Expr.kind = "ColumnExprList" THEN arrayJoin.Expr.Items
    ELSE <<arrayJoin.Expr>>

\* the range function  arrayjoin(e) [AS alias]  for an expression of an
\* ARRAY JOIN of the given type
ArrayJoinRangeFunction(e, type) ==
    [kind |-> "RangeFunction",
     Lateral |-> (type = "LEFT"),
     Functions |-> AstList(<<ArrayJoinFuncCall(
                       convert(IF e.kind = "SelectItem" THEN e.Expr ELSE e, NewCC).node)>>),
     Alias |-> IF e.kind = "SelectItem" /\ ~IsNil(e.Alias)
               THEN [kind |-> "Alias", Aliasname |-> StrPtr(ToLower(e.Alias.Name))]
               ELSE Nil]

\* C27: the FROM list of a converted select with ARRAY JOIN is the
\* converted FROM items and, after them, for every expression of the
\* ARRAY JOIN, in the order of the source, an arrayjoin range function
\* with the lower-cased alias, Lateral for LEFT ARRAY JOIN and for no other.
ArrayJoinKeepsEveryExpression ==
    ConvertedArrayJoin =>
        LET src == stmtNodes[1]
            from == convertFromClause(src.From, NewCC).node.Items
            sources == ArrayJoinSources(src.ArrayJoin)
        IN  stmts[1].Stmt.FromClause.Items =
                from \o [k \in 1..Len(sources) |->
                            ArrayJoinRangeFunction(sources[k], src.ArrayJoin.Type)]

(* ------------------------------------------------------------------ *)
(* the converted tree as a tree                                         *)
(* ------------------------------------------------------------------ *)

\* the pointers to select nodes that the tree under n holds
PointersUnder(n) == OfKind(NodeSeq(n), "Ptr")

\* C28: in a converted statement no node is reached from itself through
\* its child fields: no select node has, in itself or below, a pointer to
\* itself, so that a walk of the statement comes to an end, for a select
\* with UNION or EXCEPT too.
ConvertedTreeIsFinite ==
    \A i \in Converted :
        LET all == SelectStmts(stmts[i].Stmt)
        IN  \A k \in 1..Len(all) :
                \A p \in 1..Len(PointersUnder(all[k])) :
                    PointersUnder(all[k])[p].addr # all[k].addr

(* ------------------------------------------------------------------ *)
(* every marker converted                                               *)
(* ------------------------------------------------------------------ *)

\* the PlaceHolder and QueryParam nodes of a statement of the parser
MarkerNodes(d) ==
    SelectSeq(ChNodeSeq(d), LAMBDA x : x.kind \in {"PlaceHolder", "QueryParam"})

\* C29: a converted statement has as many ParamRef nodes as the statement
\* of the parser has PlaceHolder and QueryParam nodes, wherever these are:
\* in the later expressions of an ARRAY JOIN list, in what a sort item
\* carries, in window definitions, function arguments and parenthesised
\* lists.
EveryMarkerConverted ==
    \A i \in Converted :
        Len(ParamRefs(stmts[i].Stmt)) = Len(MarkerNodes(stmtNodes[i]))

====
